---- MODULE Spec2Model ----
(***************************************************************************)
(* A model of the PackedForest container of src/src/core.rs: one Vec of    *)
(* NodeData (value + subtree_size) in pre-order, the NodeBuilder protocol  *)
(* that writes finished nodes beyond the Vec's len, the NodeIter family    *)
(* that rebuilds the tree structure from subtree_size, and the draining    *)
(* iterators that move values out.                                         *)
(*                                                                         *)
(* A value is identified by the order in which it was stored (1, 2, ...),  *)
(* so all nodes of a forest are distinguishable.  A slot of the buffer     *)
(* either holds a live NodeData that the Vec, a builder or a drain answers *)
(* for, or it is empty: never written, lost in a reallocation, read out    *)
(* with ptr::read (destroyed or handed to the caller), or abandoned by a   *)
(* forgotten builder or drain.  Reading an empty slot is the error badRead.*)
(* The variable undropped is the ledger the tests keep (Checked<T>): plus  *)
(* one for every value created, minus one for every destructor run; a      *)
(* value moved out of a drain is the caller's, who drops it.               *)
(***************************************************************************)
EXTENDS Integers, Sequences, FiniteSets, TLC

\* Number of values stored during one run.
MaxVals == 3
\* Depth of the chain of open builders.
MaxDepth == 2
\* Largest capacity handed to PackedForest::with_capacity.
MaxInitCap == 1

VARIABLES
    mem,          \* the Vec's buffer: position -> slot
    len,          \* data.len(): the committed length
    cap,          \* data.capacity()
    chain,        \* the open NodeBuilders, outermost first
    drains,       \* the NodeListDrains that exist
    iter,         \* the NodeIter / NodeIterMut in use and the node it yielded last
    nextId,       \* the next value to be stored
    undropped,    \* values created and neither destroyed nor moved out to the caller
    leakedN,      \* values lost by mem::forget of a builder or a drain
    badRead,      \* an empty slot was read: a double drop, or uninitialized memory
    roots,        \* the logical forest: the trees committed, as the builder calls nested
    snap,         \* the committed contents when the open root builder was created
    last,         \* the last operation and what it acted on
    assertFailed, \* a debug_assert of core.rs failed
    alive,        \* the forest has not been dropped
    owner,        \* what holds the forest: the user, PackedTree::new, or a PackedTree
    num_trees,    \* ExactSizePackedForest::num_trees
    num_children, \* ExactSize::num_children, stored with each value
    iterLen,      \* ExactSizeNodeIter::len / ExactSizeNodeIterMut::len of the iterator in use
    drainLen,     \* ExactSizeNodeListDrain::len of each drain
    wire,         \* the flat input handed to the deserializer
    decoded,      \* what the deserializer returned for it
    emptiedAt     \* the label of the next value when clear or drain_trees last ran

vars == <<mem, len, cap, chain, drains, iter, nextId, undropped, leakedN,
          badRead, roots, snap, last, assertFailed, alive, owner,
          num_trees, num_children, iterLen, drainLen, wire, decoded,
          emptiedAt>>

\* The input and the result of a deserialization.
serdeVars == <<wire, decoded>>

\* The fields the exact-size wrappers of src/src/exactsize.rs add.
exactVars == <<num_trees, num_children, iterLen, drainLen>>

\* Every open builder reserves one slot that holds no value yet.
Positions == 0 .. (MaxVals + MaxDepth - 1)

Max(a, b) == IF a >= b THEN a ELSE b

\* A slot that holds no live value.
Empty == [st |-> "empty", val |-> 0, size |-> 0]

NodeData(v, s) == [st |-> "live", val |-> v, size |-> s]

Range(lo, hi) == [lo |-> lo, hi |-> hi]

NoNode == Range(0, 0)

NoIter == [kind |-> "none", lo |-> 0, hi |-> 0, node |-> NoNode]

Op(o, a, b) == [op |-> o, a |-> a, b |-> b]

\* The slot at position p; memory outside the buffer holds no value.
SlotAt(m, p) == IF p \in DOMAIN m THEN m[p] ELSE Empty

\* The committed contents: data[0 .. len).
Committed(m, n) == [p \in 0 .. (n - 1) |-> m[p]]

\* A node of the logical forest.
Tree(v, kids) == [val |-> v, kids |-> kids]

-----------------------------------------------------------------------------
(* Reading values out of slots.                                            *)

InRange(lo, hi) == {p \in Positions : lo <= p /\ p < hi}

LiveIn(m, lo, hi) == {p \in InRange(lo, hi) : m[p].st = "live"}

\* ptr::read of every slot of lo .. hi-1: the values are gone from the buffer.
ReadOut(m, lo, hi) ==
    [p \in Positions |-> IF lo <= p /\ p < hi /\ m[p].st = "live" THEN Empty ELSE m[p]]

\* Reading a slot that holds no live value.
ReadsEmpty(m, lo, hi) ==
    \/ \E p \in InRange(lo, hi) : m[p].st # "live"
    \/ \E p \in lo .. (hi - 1) : p \notin Positions

-----------------------------------------------------------------------------
(* Vec growth.                                                             *)

\* A reserve that never allocates.
ReserveNoGrowth(capacity, length, additional) == capacity

\* Vec::reserve(additional) on a Vec of the given capacity and reported length.
Reserve(capacity, length, additional) ==
    IF capacity - length >= additional
    THEN capacity
    ELSE Max(2 * capacity, length + additional)

\* A reallocation that copies one slot too few.
ReallocLosesLast(m, reported, keep) ==
    [p \in Positions |-> IF p < reported - 1 THEN m[p] ELSE Empty]

\* A reallocation is only obliged to copy the slots below the reported length;
\* keep says whether this one copied the rest too.
Realloc(m, reported, keep) ==
    [p \in Positions |-> IF p < reported \/ keep THEN m[p] ELSE Empty]

\* A finish that reserves with the len the Vec has.
ReportedLenIsLen(cur_capacity, data_len) == data_len

\* The length reported to the Vec while finish reserves.
ReportedLen(cur_capacity, data_len) == cur_capacity

\* finish: make sure data can hold needed_capacity elements.
EnsureCapacity(m, cur_capacity, data_len, needed_capacity, keep) ==
    IF needed_capacity > cur_capacity
    THEN LET reported == ReportedLen(cur_capacity, data_len)
             newcap == Reserve(cur_capacity, reported, needed_capacity - data_len)
         IN  [mem |-> IF newcap # cur_capacity THEN Realloc(m, reported, keep) ELSE m,
              cap |-> newcap,
              len |-> data_len]
    ELSE [mem |-> m, cap |-> cur_capacity, len |-> data_len]

-----------------------------------------------------------------------------
(* NodeBuilder.                                                            *)

\* A builder: parent is the place of the parent builder in the chain (0: none,
\* parent_subtree_size is None); framed says that a build_tree / build_child
\* frame holds the value the node will get (otherwise the builder came from
\* get_tree_builder / get_child_builder); kids are the logical children
\* finished under it so far.
Builder(i, p, f) ==
    [index |-> i, subtree_size |-> 1, parent |-> p, framed |-> f, kids |-> <<>>,
     num_children |-> 0]

Top == chain[Len(chain)]

Front(s) == SubSeq(s, 1, Len(s) - 1)

FramesHeld == Cardinality({k \in 1 .. Len(chain) : chain[k].framed})

\* One more value can be created and every open frame can still store its own.
CanCreate == nextId + FramesHeld <= MaxVals

\* A get_tree_builder that leaves a slot free before the new root.
RootIndexSkipsSlot(data_len) == data_len + 1

\* A get_tree_builder that starts every tree at the front of the Vec.
RootIndexAtStart(data_len) == 0

\* get_tree_builder: the index of the new root.
RootIndex(data_len) == data_len

\* A get_child_builder that places every child right after its parent.
ChildIndexNoSkip(b) == b.index + 1

\* A get_child_builder that leaves a slot free before the new child.
ChildIndexLeavesGap(b) == b.index + b.subtree_size + 1

\* A get_child_builder that hands the child its parent's own slot.
ChildIndexAtParent(b) == b.index

\* get_child_builder: the index of the new child.
ChildIndex(b) == b.index + b.subtree_size

\* A finish that counts the child but not the child's descendants.
ParentSizeCountsChildOnly(ps, ss) == ps + 1

\* A finish that leaves the parent's subtree_size alone.
ParentSizeUnchanged(ps, ss) == ps

\* finish: the parent's subtree_size once a child of size ss is finished.
ParentSizeAfterFinish(ps, ss) == ps + ss

\* An index() that counts from 1.
BuilderIndexFromOne(b) == b.index + 1

\* NodeBuilder::index: the index of the node that is being built.
BuilderIndex(b) == b.index

\* A finish of a root that commits one slot less.
LenAfterRootFinishShort(index, ss) == index + ss - 1

\* finish of a root: the new len of the Vec.
LenAfterRootFinish(index, ss) == index + ss

\* A finish that sets the len of the Vec for a child too.
LenAlwaysSet(data_len, index, ss) == index + ss

\* A finish of a child that grows the len of the Vec over the child when the
\* child lies beyond it.
LenCoversFinishedChild(data_len, index, ss) ==
    IF index + ss > data_len THEN index + ss ELSE data_len

\* finish of a child: the len of the Vec is left alone.
LenAfterChildFinish(data_len, index, ss) == data_len

\* A finish that returns the slot of the node without its descendants.
FinishReturnOneNode(index, subtree_size) == Range(index, index + 1)

\* finish: the slice of the NodeRefMut it returns.
FinishReturn(index, subtree_size) == Range(index, index + subtree_size)

\* NodeBuilder::finish on the innermost builder of ch, with value v.
FinishOn(ch, v, keep) ==
    LET b == ch[Len(ch)]
        data_len == len
        g == EnsureCapacity(mem, cap, data_len, b.index + b.subtree_size, keep)
        m2 == [g.mem EXCEPT ![b.index] = NodeData(v, b.subtree_size)]
        rest == Front(ch)
    IN  IF b.parent # 0
        THEN [mem |-> m2, cap |-> g.cap,
              len |-> LenAfterChildFinish(data_len, b.index, b.subtree_size),
              chain |-> [rest EXCEPT ![b.parent].subtree_size =
                                         ParentSizeAfterFinish(@, b.subtree_size),
                                     ![b.parent].kids = Append(@, Tree(v, b.kids))],
              roots |-> roots,
              failed |-> ~(b.index >= data_len),
              node |-> FinishReturn(b.index, b.subtree_size),
              op |-> Op("finish_child", BuilderIndex(b), b.subtree_size)]
        ELSE [mem |-> m2, cap |-> g.cap,
              len |-> LenAfterRootFinish(b.index, b.subtree_size),
              chain |-> rest,
              roots |-> Append(roots, Tree(v, b.kids)),
              failed |-> ~(b.index >= data_len) \/ b.index # data_len,
              node |-> FinishReturn(b.index, b.subtree_size),
              op |-> Op("finish_root", BuilderIndex(b), b.subtree_size)]

\* A drop that misses the last slot of the builder's range.
BuilderDropHiShort(b) == b.index + b.subtree_size - 1

\* A drop that starts one slot late.
BuilderDropLoLate(b) == b.index + 2

\* A drop that destroys the slot of the builder's own node too.
BuilderDropLoAtIndex(b) == b.index

\* Drop for NodeBuilder: the slots it destroys.
BuilderDropLo(b) == b.index + 1
BuilderDropHi(b) == b.index + b.subtree_size

\* Unwinding: every builder of the chain is dropped, innermost first, and after
\* each builder the value its build_tree / build_child frame holds.  The state
\* is the buffer, the ledger and the error flag.
RECURSIVE Unwind(_, _)
Unwind(ch, s) ==
    IF ch = <<>> THEN s
    ELSE LET b == ch[Len(ch)]
             lo == BuilderDropLo(b)
             hi == BuilderDropHi(b)
         IN  Unwind(Front(ch),
                    [mem |-> ReadOut(s.mem, lo, hi),
                     undropped |-> s.undropped - Cardinality(LiveIn(s.mem, lo, hi))
                                               - (IF b.framed THEN 1 ELSE 0),
                     bad |-> s.bad \/ ReadsEmpty(s.mem, lo, hi)])

\* A PackedTree::new that wraps the forest before build_tree has run.
OwnerDuringNewIsTree == "tree"

\* PackedTree::new / new_by_ret_val: while build_tree runs the forest is a local
\* of new, and no PackedTree exists yet.
OwnerDuringNew == "tree_new"

\* PackedTree::new / new_by_ret_val: PackedTree { forest } once build_tree has
\* returned, that is once the root builder is finished.
OwnerAfterFinish(o, ch) == IF o = "tree_new" /\ ch = <<>> THEN "tree" ELSE o

\* The methods of PackedForest that PackedTree does not hand out are called
\* on a forest the user holds.
IsForest == owner = "forest"

\* The forest is inside a PackedTreeDrain: not yet drained, or after a
\* drain_root or drain_flattened.
IsTreeDrain == owner \in {"tree_drain", "tree_drained"}

\* The root builder made by PackedTree::new is only lent to the callback.
Lent == owner = "tree_new" /\ Len(chain) = 1

Idle == alive /\ chain = <<>> /\ drains = {} /\ iter.kind = "none"

Building == alive /\ chain # <<>>

\* PackedForest::get_tree_builder.
GetTreeBuilder ==
    /\ Idle
    /\ IsForest
    /\ chain' = <<Builder(RootIndex(len), 0, FALSE)>>
    /\ snap' = Committed(mem, len)
    /\ last' = Op("get_tree_builder", RootIndex(len), 1)
    /\ UNCHANGED <<emptiedAt, serdeVars, exactVars, owner, mem, len, cap,
                   drains, iter, nextId, undropped, leakedN, badRead, roots,
                   assertFailed, alive>>

\* PackedForest::build_tree, up to the call of the callback: the root value
\* exists and is held by the frame.
BuildTree ==
    /\ Idle
    /\ IsForest
    /\ CanCreate
    /\ chain' = <<Builder(RootIndex(len), 0, TRUE)>>
    /\ undropped' = undropped + 1
    /\ snap' = Committed(mem, len)
    /\ last' = Op("build_tree", RootIndex(len), 1)
    /\ UNCHANGED <<emptiedAt, serdeVars, exactVars, owner, mem, len, cap,
                   drains, iter, nextId, leakedN, badRead, roots, assertFailed,
                   alive>>

\* NodeBuilder::get_child_builder on the innermost builder.
GetChildBuilder ==
    /\ Building
    /\ Len(chain) < MaxDepth
    /\ chain' = Append(chain, Builder(ChildIndex(Top), Len(chain), FALSE))
    /\ last' = Op("get_child_builder", ChildIndex(Top), 1)
    /\ UNCHANGED <<emptiedAt, serdeVars, exactVars, owner, mem, len, cap,
                   drains, iter, nextId, undropped, leakedN, badRead, roots,
                   snap, assertFailed, alive>>

\* NodeBuilder::build_child, up to the call of the callback.
BuildChild ==
    /\ Building
    /\ Len(chain) < MaxDepth
    /\ CanCreate
    /\ chain' = Append(chain, Builder(ChildIndex(Top), Len(chain), TRUE))
    /\ undropped' = undropped + 1
    /\ last' = Op("build_child", ChildIndex(Top), 1)
    /\ UNCHANGED <<emptiedAt, serdeVars, exactVars, owner, mem, len, cap,
                   drains, iter, nextId, leakedN, badRead, roots, snap,
                   assertFailed, alive>>

\* ExactSizeNodeBuilder::get_child_builder / add_child / finish: the parent's
\* num_children once a child is finished.  No statement of exactsize.rs
\* assigns to it.
NumChildrenAfterChildFinish(nc) == nc

\* ExactSizePackedForest: num_trees once a root is finished.  No statement of
\* exactsize.rs assigns to it.
NumTreesAfterRootFinish(n) == n

\* ExactSizeNodeIter::next and its like: len once a node was yielded.  next
\* only forwards to sub_iter.
ExactLenAfterNext(n) == n

\* ExactSizeNodeRef::children and its like: the len of the iterator is the
\* num_children stored with the node's value.
NumChildrenOf(m, p) ==
    IF SlotAt(m, p).val \in DOMAIN num_children THEN num_children[SlotAt(m, p).val] ELSE 0

\* The state after finish on the innermost builder of ch with the next value.
Finished(ch, keep) ==
    LET r == FinishOn(ch, nextId, keep)
        b == ch[Len(ch)]
    IN  /\ mem' = r.mem
        /\ cap' = r.cap
        /\ len' = r.len
        /\ chain' = IF b.parent # 0
                    THEN [r.chain EXCEPT ![b.parent].num_children =
                                             NumChildrenAfterChildFinish(@)]
                    ELSE r.chain
        /\ num_children' = [num_children EXCEPT ![nextId] = b.num_children]
        /\ num_trees' = IF b.parent = 0 THEN NumTreesAfterRootFinish(num_trees)
                                        ELSE num_trees
        /\ roots' = r.roots
        /\ assertFailed' = (assertFailed \/ r.failed)
        /\ last' = r.op
        /\ nextId' = nextId + 1
        /\ owner' = OwnerAfterFinish(owner, r.chain)

\* NodeBuilder::finish on the innermost builder: called by the user on a builder
\* they hold (with a new value), or by build_tree / build_child when the
\* callback has returned (with the value the frame holds).
Finish ==
    /\ Building
    /\ Top.framed \/ CanCreate
    /\ \E keep \in BOOLEAN : Finished(chain, keep)
    /\ undropped' = IF Top.framed THEN undropped ELSE undropped + 1
    /\ UNCHANGED <<emptiedAt, serdeVars, drains, iter, leakedN, badRead, snap,
                   alive, iterLen, drainLen>>

\* NodeBuilder::add_child: get_child_builder().finish(val).
AddChild ==
    /\ Building
    /\ CanCreate
    /\ \E keep \in BOOLEAN :
         Finished(Append(chain, Builder(ChildIndex(Top), Len(chain), FALSE)), keep)
    /\ undropped' = undropped + 1
    /\ UNCHANGED <<emptiedAt, serdeVars, drains, iter, leakedN, badRead, snap,
                   alive, iterLen, drainLen>>

\* PackedForest::add_single_node_tree: get_tree_builder().finish(val).
AddSingleNodeTree ==
    /\ Idle
    /\ IsForest
    /\ CanCreate
    /\ \E keep \in BOOLEAN : Finished(<<Builder(RootIndex(len), 0, FALSE)>>, keep)
    /\ undropped' = undropped + 1
    /\ snap' = Committed(mem, len)
    /\ UNCHANGED <<emptiedAt, serdeVars, drains, iter, leakedN, badRead, alive,
                   iterLen, drainLen>>

\* A drop that counts the dropped child into its parent.
ParentSizeAfterDropAdds(ps, ss) == ps + ss

\* Drop for NodeBuilder: the parent's subtree_size once a child of running
\* size ss is dropped.  drop does not write through parent_subtree_size.
ParentSizeAfterDrop(ps, ss) == ps

\* Drop for NodeBuilder, on a builder the user holds (not finished).
DropBuilder ==
    /\ Building
    /\ ~Top.framed
    /\ ~Lent
    /\ LET lo == BuilderDropLo(Top)
           hi == BuilderDropHi(Top)
       IN  /\ mem' = ReadOut(mem, lo, hi)
           /\ undropped' = undropped - Cardinality(LiveIn(mem, lo, hi))
           /\ badRead' = (badRead \/ ReadsEmpty(mem, lo, hi))
    /\ chain' = IF Top.parent # 0
                THEN [Front(chain) EXCEPT ![Top.parent].subtree_size =
                                              ParentSizeAfterDrop(@, Top.subtree_size)]
                ELSE Front(chain)
    /\ last' = Op(IF Top.parent = 0 THEN "drop_root" ELSE "drop_child",
                  Top.index, Top.subtree_size)
    /\ UNCHANGED <<emptiedAt, serdeVars, exactVars, owner, len, cap, drains,
                   iter, nextId, leakedN, roots, snap, assertFailed, alive>>

\* std::mem::forget of a builder the user holds: its drop never runs.
ForgetBuilder ==
    /\ Building
    /\ ~Top.framed
    /\ ~Lent
    /\ leakedN' = leakedN + Cardinality(LiveIn(mem, BuilderDropLo(Top), BuilderDropHi(Top)))
    /\ chain' = Front(chain)
    /\ last' = Op("forget_builder", Top.index, Top.subtree_size)
    /\ mem' = ReadOut(mem, BuilderDropLo(Top), BuilderDropHi(Top))
    /\ UNCHANGED <<emptiedAt, serdeVars, exactVars, owner, len, cap, drains,
                   iter, nextId, undropped, badRead, roots, snap, assertFailed,
                   alive>>

\* A panic in a callback (or in the code that holds the builders): the stack
\* unwinds through every open builder, and through the frame of PackedTree::new
\* with its (still empty) forest.
Panic ==
    /\ Building
    /\ LET r == Unwind(chain, [mem |-> mem, undropped |-> undropped, bad |-> badRead])
       IN  /\ mem' = r.mem
           /\ undropped' = r.undropped
           /\ badRead' = r.bad
    /\ chain' = <<>>
    /\ last' = Op("panic", Len(chain), undropped - undropped')
    /\ owner' = "forest"
    /\ alive' = (alive /\ owner # "tree_new")
    /\ UNCHANGED <<emptiedAt, serdeVars, exactVars, len, cap, drains, iter,
                   nextId, leakedN, roots, snap, assertFailed>>

-----------------------------------------------------------------------------
(* Slices and the iterators over them.  A slice is a Range of positions.   *)

SliceLen(r) == r.hi - r.lo

\* A split whose remainder keeps the old length.
SplitOffFirstNKeepsLen(r, n) ==
    [first |-> Range(r.lo, r.lo + n), rest |-> Range(r.lo + n, r.hi + n)]

\* slice_split_off_first_n_unchecked: the first n elements, and what is left.
SplitOffFirstN(r, n) ==
    [first |-> Range(r.lo, r.lo + n), rest |-> Range(r.lo + n, r.hi)]

\* A split whose first part reaches one slot into the remainder.
SplitOffFirstNMutWide(r, n) ==
    [first |-> Range(r.lo, r.lo + n + 1), rest |-> Range(r.lo + n, r.hi)]

\* slice_split_off_first_n_unchecked_mut.
SplitOffFirstNMut(r, n) ==
    [first |-> Range(r.lo, r.lo + n), rest |-> Range(r.lo + n, r.hi)]

\* slice_split_first_unchecked: the first element, and what is left.
SplitFirst(r) == [first |-> r.lo, rest |-> Range(r.lo + 1, r.hi)]

\* A split whose remainder still holds the first element.
SplitFirstMutKeepsFirst(r) == [first |-> r.lo, rest |-> Range(r.lo, r.hi)]

\* slice_split_first_unchecked_mut.
SplitFirstMut(r) == [first |-> r.lo, rest |-> Range(r.lo + 1, r.hi)]

\* The subtree_size read from the first slot of a slice.
LeadingSize(m, r) == SlotAt(m, r.lo).size

\* NodeIter::next on a non-empty slice: the NodeRef yielded and what remains.
NodeIterNext(m, r) == SplitOffFirstN(r, LeadingSize(m, r))

\* A next that yields the first node and leaves it in the iterator.
NodeIterMutNextStays(m, r) ==
    [first |-> Range(r.lo, r.lo + LeadingSize(m, r)), rest |-> r]

\* NodeIterMut::next on a non-empty slice.
NodeIterMutNext(m, r) == SplitOffFirstNMut(r, LeadingSize(m, r))

\* NodeRef::children.
NodeRefChildren(node) == SplitFirst(node).rest

\* NodeRefMut::children / into_children.
NodeRefMutChildren(node) == SplitFirstMut(node).rest

\* NodeRef::val / NodeRefMut::val: the value in the first slot of the slice.
NodeRefVal(m, node) == SlotAt(m, node.lo).val

\* NodeRef::num_descendants_incl_self: the length of the slice.
NumDescendantsInclSelf(node) == SliceLen(node)

\* A count of the descendants that leaves out one more than the node itself.
NumDescendantsExclSelfShort(node) == SliceLen(node) - 2

\* NodeRef::num_descendants_excl_self: the length of the slice minus one.
NumDescendantsExclSelf(node) == SliceLen(node) - 1

\* A drain that goes on flat: the children are left in the iterator.
NodeListDrainNextFlat(m, r) ==
    [slot |-> r.lo, children |-> Range(r.lo + 1, r.lo + 1), rest |-> Range(r.lo + 1, r.hi)]

\* NodeListDrain::next on a non-empty slice: the slot whose value is moved out,
\* the slice of the children drain, and what the iterator keeps.
NodeListDrainNext(m, r) ==
    LET s == SplitOffFirstNMut(r, LeadingSize(m, r))
        f == SplitFirstMut(s.first)
    IN  [slot |-> f.first, children |-> f.rest, rest |-> s.rest]

\* The debug_assert!(n <= len) of the unchecked splits, and the read of the
\* leading size, are sound on this slice.
SplitSound(m, r) ==
    /\ SlotAt(m, r.lo).st = "live"
    /\ LeadingSize(m, r) >= 1
    /\ LeadingSize(m, r) <= SliceLen(r)

\* What a recursive walk with NodeIter::next and NodeRef::children visits in the
\* slice r: the sequence of trees, each a value and the trees of its children.
\* An unsound split ends the walk with a node of value 0.
RECURSIVE IterWalk(_, _)
IterWalk(m, r) ==
    IF SliceLen(r) <= 0 THEN <<>>
    ELSE IF ~SplitSound(m, r) THEN <<Tree(0, <<>>)>>
    ELSE LET n == NodeIterNext(m, r)
         IN  <<Tree(SlotAt(m, n.first.lo).val, IterWalk(m, NodeRefChildren(n.first)))>>
             \o IterWalk(m, n.rest)

\* What draining the slice r completely yields, every children drain consumed
\* before its parent's next sibling: values and, for each, its children's.
RECURSIVE DrainWalk(_, _)
DrainWalk(m, r) ==
    IF SliceLen(r) <= 0 THEN <<>>
    ELSE IF ~SplitSound(m, r) THEN <<Tree(0, <<>>)>>
    ELSE LET n == NodeListDrainNext(m, r)
         IN  <<Tree(SlotAt(m, n.slot).val, DrainWalk(m, n.children))>> \o DrainWalk(m, n.rest)

-----------------------------------------------------------------------------
(* PackedForest: iteration, draining, clearing, dropping.                  *)

\* PackedForest::iter_trees / iter_trees_mut: the slice of the whole Vec.
WholeSlice(data_len) == Range(0, data_len)

\* A count that leaves out the last node.
TotNumNodesBelowLast(data_len) == data_len - 1

\* PackedForest::tot_num_nodes.
TotNumNodes(data_len) == data_len

\* A drain_trees that leaves the len as it was.
LenKeptByDrain(old_len) == old_len

\* drain_trees: the len the Vec is left with.
LenAfterDrain(old_len) == 0

Iterating == alive /\ iter.kind # "none"

IterTrees ==
    /\ Idle
    /\ ~IsTreeDrain
    /\ \E k \in (IF IsForest THEN {"shared", "mut"} ELSE {"shared"}) :
         iter' = [kind |-> k, lo |-> WholeSlice(len).lo, hi |-> WholeSlice(len).hi,
                  node |-> NoNode]
    /\ last' = Op("iter_trees", 0, len)
    /\ iterLen' = num_trees
    /\ UNCHANGED <<emptiedAt, serdeVars, num_trees, num_children, drainLen,
                   owner, mem, len, cap, chain, drains, nextId, undropped,
                   leakedN, badRead, roots, snap, assertFailed, alive>>

\* NodeIter::next / NodeIterMut::next.
IterNext ==
    /\ Iterating
    /\ iter.kind \in {"shared", "mut"}
    /\ LET r == Range(iter.lo, iter.hi)
       IN  IF SliceLen(r) = 0
           THEN /\ iter' = [iter EXCEPT !.node = NoNode]
                /\ last' = Op("iter_none", r.lo, 0)
                /\ UNCHANGED <<assertFailed, badRead, iterLen>>
           ELSE LET n == IF iter.kind = "mut" THEN NodeIterMutNext(mem, r)
                                              ELSE NodeIterNext(mem, r)
                IN  /\ iter' = [kind |-> iter.kind, lo |-> n.rest.lo, hi |-> n.rest.hi,
                                node |-> n.first]
                    /\ last' = Op("iter_next", r.lo, LeadingSize(mem, r))
                    /\ assertFailed' = (assertFailed \/ LeadingSize(mem, r) > SliceLen(r))
                    /\ badRead' = (badRead \/ SlotAt(mem, r.lo).st # "live")
                    /\ iterLen' = ExactLenAfterNext(iterLen)
    /\ UNCHANGED <<emptiedAt, serdeVars, num_trees, num_children, drainLen,
                   owner, mem, len, cap, chain, drains, nextId, undropped,
                   leakedN, roots, snap, alive>>

\* NodeRef::children / NodeRefMut::into_children on the node yielded last: the
\* iteration goes on among its children.
IterChildren ==
    /\ Iterating
    /\ iter.node # NoNode
    /\ LET c == IF iter.kind \in {"mut", "refmut"} THEN NodeRefMutChildren(iter.node)
                                                   ELSE NodeRefChildren(iter.node)
           k == IF iter.kind \in {"mut", "refmut"} THEN "mut" ELSE "shared"
       IN  /\ iter' = [kind |-> k, lo |-> c.lo, hi |-> c.hi, node |-> NoNode]
           /\ last' = Op("children", c.lo, SliceLen(c))
    /\ iterLen' = NumChildrenOf(mem, iter.node.lo)
    /\ UNCHANGED <<emptiedAt, serdeVars, num_trees, num_children, drainLen,
                   owner, mem, len, cap, chain, drains, nextId, undropped,
                   leakedN, badRead, roots, snap, assertFailed, alive>>

\* The iterator and the node it yielded go out of scope.
IterEnd ==
    /\ Iterating
    /\ iter' = NoIter
    /\ last' = Op("iter_end", 0, 0)
    /\ iterLen' = 0
    /\ UNCHANGED <<emptiedAt, serdeVars, num_trees, num_children, drainLen,
                   owner, mem, len, cap, chain, drains, nextId, undropped,
                   leakedN, badRead, roots, snap, assertFailed, alive>>

\* A get_unchecked that hands out the node without its subtree.
GetUncheckedOneNode(m, index) == Range(index, index + 1)

\* PackedForest::get_unchecked / get_unchecked_mut: the slice of the node at
\* index, as long as the subtree_size stored there.
GetUnchecked(m, index) == Range(index, index + SlotAt(m, index).size)

\* PackedForest::get / get_mut: the bounds check, then get_unchecked.
Get(m, data_len, index) ==
    IF index < data_len
    THEN [some |-> TRUE, node |-> GetUnchecked(m, index)]
    ELSE [some |-> FALSE, node |-> NoNode]

\* The indices the callers ask for: every position, and some beyond the buffer.
Indices == 0 .. (MaxVals + MaxDepth + 1)

\* PackedForest::get / get_mut called with some index; the NodeRef / NodeRefMut
\* returned is held like a node an iterator yielded.
GetNode ==
    /\ Idle
    /\ ~IsTreeDrain
    /\ \E index \in Indices : \E k \in {"ref", "refmut"} :
         LET g == Get(mem, len, index)
         IN  IF g.some
             THEN /\ iter' = [kind |-> k, lo |-> g.node.hi, hi |-> g.node.hi,
                              node |-> g.node]
                  /\ last' = Op("get", index, SliceLen(g.node))
                  /\ badRead' = (badRead \/ SlotAt(mem, index).st # "live")
             ELSE /\ last' = Op("get_none", index, 0)
                  /\ UNCHANGED <<iter, badRead>>
    /\ UNCHANGED <<emptiedAt, serdeVars, exactVars, owner, mem, len, cap,
                   chain, drains, nextId, undropped, leakedN, roots, snap,
                   assertFailed, alive>>

\* An iter_flattened that goes through the Vec from its end.
IterFlattenedBackwards(m, data_len) == [i \in 1 .. data_len |-> SlotAt(m, data_len - i).val]

\* PackedForest::iter_flattened: the values of data[0 .. len), in storage order.
IterFlattened(m, data_len) == [i \in 1 .. data_len |-> SlotAt(m, i - 1).val]

RECURSIVE SumSeq(_)
\* Iterator::sum over a sequence of numbers.
SumSeq(q) == IF q = <<>> THEN 0 ELSE Head(q) + SumSeq(Tail(q))

\* count_flattened of the tests: the sum over iter_flattened.
CountFlattened(m, data_len) == SumSeq(IterFlattened(m, data_len))

RECURSIVE CountRec(_), CountRecAll(_)
\* count_rec of the tests, on a node the walk visits: its value plus count_rec
\* of its children.
CountRec(t) == t.val + CountRecAll(t.kids)
CountRecAll(f) == IF f = <<>> THEN 0 ELSE CountRec(Head(f)) + CountRecAll(Tail(f))

\* count of the tests: the sum of count_rec over iter_trees.
Count(m, data_len) == CountRecAll(IterWalk(m, WholeSlice(data_len)))

\* The sums of the tests, taken both ways on the forest as it is.
SumBothWays ==
    /\ Idle
    /\ ~IsTreeDrain
    /\ last' = Op("sum", CountFlattened(mem, len), Count(mem, len))
    /\ UNCHANGED <<emptiedAt, serdeVars, exactVars, owner, mem, len, cap,
                   chain, drains, iter, nextId, undropped, leakedN, badRead,
                   roots, snap, assertFailed, alive>>

\* The two trees build_store of the tests describes.
BuildStoreTrees ==
    << Tree(2, << Tree(10, <<Tree(11, <<>>), Tree(12, <<>>), Tree(13, <<>>)>>),
                  Tree(20, <<>>),
                  Tree(30, <<Tree(31, <<>>), Tree(32, <<>>), Tree(33, <<>>)>>) >>),
       Tree(3, << Tree(10, <<>>),
                  Tree(20, <<Tree(21, <<>>), Tree(22, <<>>), Tree(23, <<>>)>>),
                  Tree(30, <<>>) >>) >>

RECURSIVE BuiltSize(_, _), BuiltNodes(_)
\* The subtree_size a builder has reached, starting from ss, once the trees f
\* were finished under it one after the other.
BuiltSize(ss, f) ==
    IF f = <<>> THEN ss
    ELSE BuiltSize(ParentSizeAfterFinish(ss, BuiltSize(1, Head(f).kids)), Tail(f))

\* The NodeData that building the trees f writes, in the order of their index:
\* every node at its builder's index, its children from ChildIndex on.
BuiltNodes(f) ==
    IF f = <<>> THEN <<>>
    ELSE <<NodeData(Head(f).val, BuiltSize(1, Head(f).kids))>>
         \o BuiltNodes(Head(f).kids) \o BuiltNodes(Tail(f))

\* The Vec of the forest build_store returns.
BuildStore == [p \in 0 .. (Len(BuiltNodes(BuildStoreTrees)) - 1) |->
                  BuiltNodes(BuildStoreTrees)[p + 1]]

\* A drain: its slice, and expect: what NodeIter would have visited in that
\* slice of the forest as it was before drain_trees.
Drain(r, e) == [lo |-> r.lo, hi |-> r.hi, expect |-> e]

\* PackedForest::drain_trees.
DrainTrees ==
    /\ Idle
    /\ IsForest
    /\ len' = LenAfterDrain(len)
    /\ drains' = {Drain(Range(0, len), IterWalk(mem, WholeSlice(len)))}
    /\ roots' = <<>>
    /\ last' = Op("drain_trees", 0, len)
    /\ emptiedAt' = nextId
    /\ drainLen' = [d \in drains' |-> num_trees]
    /\ UNCHANGED <<serdeVars, num_trees, num_children, iterLen, owner, mem,
                   cap, chain, iter, nextId, undropped, leakedN, badRead, snap,
                   assertFailed, alive>>

Draining == alive /\ drains # {}

\* NodeListDrain::next on one of the drains.
DrainNext ==
    /\ Draining
    /\ \E d \in drains :
         LET r == Range(d.lo, d.hi)
         IN  IF SliceLen(r) = 0
             THEN /\ last' = Op("drain_none", r.lo, 0)
                  /\ UNCHANGED <<mem, drains, undropped, assertFailed, badRead,
                                 drainLen>>
             ELSE LET n == NodeListDrainNext(mem, r)
                      e == d.expect
                  IN  /\ mem' = ReadOut(mem, n.slot, n.slot + 1)
                      /\ undropped' = undropped - 1
                      /\ drains' = (drains \ {d}) \cup
                             {Drain(n.rest, IF e = <<>> THEN <<>> ELSE Tail(e)),
                              Drain(n.children, IF e = <<>> THEN <<>> ELSE Head(e).kids)}
                      /\ last' = Op("drain_next", SlotAt(mem, n.slot).val,
                                    IF e = <<>> THEN 0 ELSE Head(e).val)
                      /\ assertFailed' = (assertFailed \/ LeadingSize(mem, r) > SliceLen(r))
                      /\ badRead' = (badRead \/ ReadsEmpty(mem, n.slot, n.slot + 1))
                      /\ drainLen' = [x \in drains' |->
                             IF x.lo = n.children.lo /\ x.hi = n.children.hi
                             THEN NumChildrenOf(mem, n.slot)
                             ELSE IF x.lo = n.rest.lo /\ x.hi = n.rest.hi
                             THEN ExactLenAfterNext(drainLen[d])
                             ELSE drainLen[x]]
    /\ UNCHANGED <<emptiedAt, serdeVars, num_trees, num_children, iterLen,
                   owner, len, cap, chain, iter, nextId, leakedN, roots, snap,
                   alive>>

\* A drop that spares the first remaining node.
DrainDropLoLate(d) == d.lo + 1

\* Drop for NodeListDrain: the first slot it destroys.
DrainDropLo(d) == d.lo

\* Drop for NodeListDrain.
DrainDrop ==
    /\ Draining
    /\ \E d \in drains :
         /\ mem' = ReadOut(mem, DrainDropLo(d), d.hi)
         /\ undropped' = undropped - Cardinality(LiveIn(mem, DrainDropLo(d), d.hi))
         /\ badRead' = (badRead \/ ReadsEmpty(mem, DrainDropLo(d), d.hi))
         /\ drains' = drains \ {d}
         /\ last' = Op("drain_drop", d.lo, d.hi - d.lo)
         /\ drainLen' = [x \in drains' |-> drainLen[x]]
    /\ UNCHANGED <<emptiedAt, serdeVars, num_trees, num_children, iterLen,
                   owner, len, cap, chain, iter, nextId, leakedN, roots, snap,
                   assertFailed, alive>>

\* std::mem::forget of a NodeListDrain.
DrainForget ==
    /\ Draining
    /\ \E d \in drains :
         /\ mem' = ReadOut(mem, d.lo, d.hi)
         /\ leakedN' = leakedN + Cardinality(LiveIn(mem, d.lo, d.hi))
         /\ drains' = drains \ {d}
         /\ last' = Op("drain_forget", d.lo, d.hi - d.lo)
         /\ drainLen' = [x \in drains' |-> drainLen[x]]
    /\ UNCHANGED <<emptiedAt, serdeVars, num_trees, num_children, iterLen,
                   owner, len, cap, chain, iter, nextId, undropped, badRead,
                   roots, snap, assertFailed, alive>>

\* Vec::clear, Vec's Drop: every element of data[0 .. len) is dropped.
VecDropAll ==
    /\ mem' = ReadOut(mem, 0, len)
    /\ undropped' = undropped - Cardinality(LiveIn(mem, 0, len))
    /\ badRead' = (badRead \/ ReadsEmpty(mem, 0, len))
    /\ len' = 0
    /\ roots' = <<>>

\* PackedForest::clear.
Clear ==
    /\ Idle
    /\ IsForest
    /\ VecDropAll
    /\ last' = Op("clear", 0, len)
    /\ emptiedAt' = nextId
    /\ UNCHANGED <<serdeVars, exactVars, owner, cap, chain, drains, iter,
                   nextId, leakedN, snap, assertFailed, alive>>

\* The forest is dropped.
DropForest ==
    /\ Idle
    /\ VecDropAll
    /\ alive' = FALSE
    /\ last' = Op("drop_forest", 0, len)
    /\ UNCHANGED <<emptiedAt, serdeVars, exactVars, owner, cap, chain, drains,
                   iter, nextId, leakedN, snap, assertFailed>>

-----------------------------------------------------------------------------
(* PackedTree: a forest that holds exactly one tree.                       *)

\* PackedTree::new (the root value is held by build_tree) and
\* PackedTree::new_by_ret_val (the callback returns it), up to the call of the
\* callback, on the forest PackedForest::new() made.
TreeNew ==
    /\ Idle
    /\ IsForest
    /\ last.op = "new"
    /\ len = 0
    /\ cap = 0
    /\ \E f \in BOOLEAN :
         /\ f => CanCreate
         /\ chain' = <<Builder(RootIndex(len), 0, f)>>
         /\ undropped' = IF f THEN undropped + 1 ELSE undropped
    /\ owner' = OwnerDuringNew
    /\ snap' = Committed(mem, len)
    /\ last' = Op("tree_new", RootIndex(len), 1)
    /\ UNCHANGED <<emptiedAt, serdeVars, exactVars, mem, len, cap, drains,
                   iter, nextId, leakedN, badRead, roots, assertFailed, alive>>

\* A try_from_forest that accepts every forest that is not empty.
TryFromForestNonEmpty(m, data_len) == SliceLen(WholeSlice(data_len)) # 0

\* A try_from_forest that accepts every forest.
TryFromForestAlways(m, data_len) == TRUE

\* PackedTree::try_from_forest: Some exactly when the first next() of
\* iter_trees() yields a node and the second yields None.
TryFromForest(m, data_len) ==
    LET r == WholeSlice(data_len)
    IN  IF SliceLen(r) = 0 THEN FALSE
        ELSE SliceLen(NodeIterNext(m, r).rest) = 0

\* PackedTree::try_from_forest / TryFrom<PackedForest>: the forest is moved in;
\* it ends in the PackedTree, or it is dropped with the None / Err.
TryFrom ==
    /\ Idle
    /\ IsForest
    /\ IF TryFromForest(mem, len)
       THEN /\ owner' = "tree"
            /\ last' = Op("try_from_forest", 1, Len(roots))
            /\ UNCHANGED <<mem, len, undropped, badRead, roots, alive>>
       ELSE /\ VecDropAll
            /\ alive' = FALSE
            /\ last' = Op("try_from_forest", 0, Len(roots))
            /\ UNCHANGED owner
    /\ UNCHANGED <<emptiedAt, serdeVars, exactVars, cap, chain, drains, iter,
                   nextId, leakedN, snap, assertFailed>>

\* A root that is only the first slot of the Vec.
RootFirstSlotOnly(m, data_len) == [some |-> data_len > 0, node |-> Range(0, 1)]

\* PackedTree::root / root_mut: iter_trees().next(), which unwrap() takes.
Root(m, data_len) ==
    LET r == WholeSlice(data_len)
    IN  IF SliceLen(r) = 0 THEN [some |-> FALSE, node |-> NoNode]
        ELSE [some |-> TRUE, node |-> NodeIterNext(m, r).first]

\* PackedTree::root / root_mut; the NodeRef / NodeRefMut returned is held like
\* a node an iterator yielded.
TreeRoot ==
    /\ Idle
    /\ owner = "tree"
    /\ LET g == Root(mem, len)
       IN  IF g.some
           THEN /\ \E k \in {"ref", "refmut"} :
                     iter' = [kind |-> k, lo |-> g.node.hi, hi |-> g.node.hi,
                              node |-> g.node]
                /\ last' = Op("root", g.node.lo, SliceLen(g.node))
                /\ assertFailed' = (assertFailed \/ LeadingSize(mem, WholeSlice(len)) > len)
                /\ badRead' = (badRead \/ SlotAt(mem, 0).st # "live")
           ELSE /\ last' = Op("root_panic", 0, 0)
                /\ UNCHANGED <<iter, assertFailed, badRead>>
    /\ UNCHANGED <<emptiedAt, serdeVars, exactVars, mem, len, cap, chain,
                   drains, nextId, undropped, leakedN, roots, snap, alive,
                   owner>>

\* From<PackedTree> for PackedForest: the forest is the user's again.
IntoForest ==
    /\ Idle
    /\ owner = "tree"
    /\ owner' = "forest"
    /\ last' = Op("into_forest", 0, len)
    /\ UNCHANGED <<emptiedAt, serdeVars, exactVars, mem, len, cap, chain,
                   drains, iter, nextId, undropped, leakedN, badRead, roots,
                   snap, assertFailed, alive>>

\* PackedTree::drain: the forest moves into a PackedTreeDrain.
TreeDrain ==
    /\ Idle
    /\ owner = "tree"
    /\ owner' = "tree_drain"
    /\ last' = Op("tree_drain", 0, len)
    /\ UNCHANGED <<emptiedAt, serdeVars, exactVars, mem, len, cap, chain,
                   drains, iter, nextId, undropped, leakedN, badRead, roots,
                   snap, assertFailed, alive>>

NoDrainRoot == [some |-> FALSE, slot |-> 0, children |-> Range(0, 0), rest |-> Range(0, 0)]

\* A drain_root that hands out the root with no children and leaves the
\* descendants in the iterator.
DrainRootOfFlat(m, old_len) ==
    IF old_len = 0 THEN NoDrainRoot
    ELSE [some |-> TRUE, slot |-> 0, children |-> Range(1, 1), rest |-> Range(1, old_len)]

\* PackedTreeDrain::drain_root: the first next() of the NodeListDrain that
\* drain_trees() makes over the old_len slots the Vec held.
DrainRootOf(m, old_len) ==
    LET r == Range(0, old_len)
    IN  IF SliceLen(r) = 0 THEN NoDrainRoot
        ELSE LET n == NodeListDrainNext(m, r)
             IN  [some |-> TRUE, slot |-> n.slot, children |-> n.children, rest |-> n.rest]

\* PackedTreeDrain::drain_root: drain_trees(), next() on the drain, and the
\* drop of that drain at the end of the statement; the NodeDrain returned
\* keeps the drain of the children.
DrainRoot ==
    /\ Idle
    /\ IsTreeDrain
    /\ LET g == DrainRootOf(mem, len)
           t == Drain(g.rest, <<>>)
       IN  IF g.some
           THEN /\ mem' = ReadOut(ReadOut(mem, g.slot, g.slot + 1), DrainDropLo(t), t.hi)
                /\ undropped' = undropped - 1 - Cardinality(LiveIn(mem, DrainDropLo(t), t.hi))
                /\ badRead' = (\/ badRead
                               \/ ReadsEmpty(mem, g.slot, g.slot + 1)
                               \/ ReadsEmpty(mem, DrainDropLo(t), t.hi))
                /\ drains' = {Drain(g.children, Head(IterWalk(mem, WholeSlice(len))).kids)}
                /\ drainLen' = [d \in drains' |-> NumChildrenOf(mem, g.slot)]
                /\ assertFailed' = (assertFailed \/ LeadingSize(mem, WholeSlice(len)) > len)
                /\ last' = Op("drain_root", SlotAt(mem, g.slot).val, SliceLen(g.children))
           ELSE /\ last' = Op("drain_root_none", 0, 0)
                /\ UNCHANGED <<mem, undropped, badRead, drains, drainLen, assertFailed>>
    /\ len' = LenAfterDrain(len)
    /\ roots' = <<>>
    /\ emptiedAt' = nextId
    /\ owner' = "tree_drained"
    /\ UNCHANGED <<serdeVars, num_trees, num_children, iterLen, cap, chain,
                   iter, nextId, leakedN, snap, alive>>

\* PackedForest::drain_flattened / PackedTreeDrain::drain_flattened, and the
\* life of the Vec::Drain it returns: taken values are moved out, the others
\* are destroyed when it is dropped, or leaked when it is forgotten.
DrainFlattened ==
    /\ Idle
    /\ IsForest \/ IsTreeDrain
    /\ \E taken \in 0 .. len : \E forget \in BOOLEAN :
         /\ undropped' = undropped - (IF forget THEN taken ELSE len)
         /\ leakedN' = leakedN + (IF forget THEN len - taken ELSE 0)
         /\ last' = Op("drain_flattened", len, taken)
    /\ mem' = ReadOut(mem, 0, len)
    /\ badRead' = (badRead \/ ReadsEmpty(mem, 0, len))
    /\ len' = 0
    /\ roots' = <<>>
    /\ owner' = IF IsTreeDrain THEN "tree_drained" ELSE owner
    /\ UNCHANGED <<emptiedAt, serdeVars, exactVars, cap, chain, drains, iter,
                   nextId, snap, assertFailed, alive>>

-----------------------------------------------------------------------------
(* Serialization (src/src/serde.rs).  The flat form is the sequence of the *)
(* FlatNodes (val, offset) of the Vec; the nested form is a sequence of    *)
(* nodes, each the pair of its value and the sequence of its children.     *)

FlatNode(v, o) == [val |-> v, offset |-> o]

\* Option<usize>::None for the n of rec_add_n_children.
None == -1

\* The end of the sibling run the node at position p is in: the end of the
\* subtree of its parent, or of the Vec for a root.
RunEnd(m, data_len, p) ==
    LET anc == {a \in 0 .. (p - 1) : a + SlotAt(m, a).size > p}
    IN  IF anc = {} THEN data_len
        ELSE LET par == CHOOSE a \in anc : \A b \in anc : b <= a
             IN  par + SlotAt(m, par).size

\* The two readings of NodeData::next_sibling_offset: the distance to the next
\* sibling with None for the last node of a sibling run, or the subtree size
\* of every node.
Linkages == {"sibling_offset", "subtree_size"}

\* NodeData::next_sibling_offset under a linkage, written as 0 for None.
NextSiblingOffset(m, data_len, p, linkage) ==
    IF linkage = "sibling_offset" /\ p + SlotAt(m, p).size >= RunEnd(m, data_len, p)
    THEN 0
    ELSE SlotAt(m, p).size

\* Serialize for NodeData, and for the forest in the binary form: raw_data()
\* element by element.
SerializeFlat(m, data_len, linkage) ==
    [i \in 1 .. data_len |->
        FlatNode(SlotAt(m, i - 1).val, NextSiblingOffset(m, data_len, i - 1, linkage))]

RECURSIVE SerializeNodeIter(_, _)
\* Serialize for NodeIter (a sequence of nodes) and for NodeRef (the value, then
\* the children); the forest in the human-readable form is iter_trees().
SerializeNodeIter(m, r) ==
    IF SliceLen(r) <= 0 \/ ~SplitSound(m, r) THEN <<>>
    ELSE LET n == NodeIterNext(m, r)
         IN  << <<SlotAt(m, n.first.lo).val, SerializeNodeIter(m, NodeRefChildren(n.first))>> >>
             \o SerializeNodeIter(m, n.rest)

SerializeNested(m, data_len) == SerializeNodeIter(m, WholeSlice(data_len))

\* The outcome of a deserializer: the nodes added, and the next element of the
\* input; or an error with the count it reports.
DeOk(pos, kids) == [ok |-> TRUE, pos |-> pos, kids |-> kids, msg |-> "", at |-> 0]
DeErr(msg, at, pos) == [ok |-> FALSE, pos |-> pos, kids |-> <<>>, msg |-> msg, at |-> at]

\* A rec_add_n_children that takes the end of the input for the end of the
\* children.
OnEndOfInputOk(n, num_read, pos, kids) == DeOk(pos, kids)

\* rec_add_n_children when seq.next_element() yields no element: the end of the
\* children when all the rest was to be read, an error when n were.
OnEndOfInput(n, num_read, pos, kids) ==
    IF n = None THEN DeOk(pos, kids) ELSE DeErr("offset too large", num_read, pos)

\* A check that lets every offset pass.
OffsetInvalidNever(offset, max_num_left_to_read) == FALSE

\* rec_add_n_children: the offset asks for more than the parent has left.
OffsetInvalid(offset, max_num_left_to_read) ==
    offset # 0 /\ offset - 1 > max_num_left_to_read

\* An n_rec that counts the node itself among its descendants.
NRecCountsSelf(offset, max_num_left_to_read) ==
    IF offset = 0 THEN max_num_left_to_read ELSE offset

\* rec_add_n_children: the number of descendants to read for a node.
NRec(offset, max_num_left_to_read) ==
    IF offset = 0 THEN max_num_left_to_read ELSE offset - 1

RECURSIVE RecAddNChildren(_, _, _, _, _)
\* rec_add_n_children(seq, n, node_builder), its loop unrolled: pos is the next
\* element of the input q, num_read the elements read so far for this node,
\* kids the children added to node_builder so far.
RecAddNChildren(q, pos, n, num_read, kids) ==
    IF n # None
    THEN IF ~(num_read < n) THEN DeOk(pos, kids)
         ELSE IF pos > Len(q) THEN OnEndOfInput(n, num_read, pos, kids)
         ELSE LET node == q[pos]
                  max_num_left_to_read == n - (num_read + 1)
              IN  IF OffsetInvalid(node.offset, max_num_left_to_read)
                  THEN DeErr("offset invalid", num_read + 1, pos + 1)
                  ELSE LET n_rec == NRec(node.offset, max_num_left_to_read)
                           sub == RecAddNChildren(q, pos + 1, n_rec, 0, <<>>)
                       IN  IF ~sub.ok THEN sub
                           ELSE RecAddNChildren(q, sub.pos, n, num_read + 1 + n_rec,
                                                Append(kids, Tree(node.val, sub.kids)))
    ELSE IF pos > Len(q) THEN OnEndOfInput(n, num_read, pos, kids)
         ELSE LET node == q[pos]
                  n_rec == IF node.offset = 0 THEN None ELSE node.offset - 1
                  sub == RecAddNChildren(q, pos + 1, n_rec, 0, <<>>)
              IN  IF ~sub.ok THEN sub
                  ELSE RecAddNChildren(q, sub.pos, None, 0,
                                       Append(kids, Tree(node.val, sub.kids)))

RECURSIVE VisitSeqFlat(_, _, _)
\* FlatNodeListDeserializer::visit_seq: a tree for every element the loop
\* meets, its descendants read by rec_add_n_children.
VisitSeqFlat(q, pos, trees) ==
    IF pos > Len(q) THEN DeOk(pos, trees)
    ELSE LET node == q[pos]
             sub == IF node.offset = 0
                    THEN RecAddNChildren(q, pos + 1, None, 0, <<>>)
                    ELSE RecAddNChildren(q, pos + 1, node.offset - 1, 0, <<>>)
         IN  IF ~sub.ok THEN sub
             ELSE VisitSeqFlat(q, sub.pos, Append(trees, Tree(node.val, sub.kids)))

\* Deserialize for the forest, binary form: the forest, or the error.
DeserializeFlat(q) == VisitSeqFlat(q, 1, <<>>)

RECURSIVE VisitSeqNested(_, _, _)
\* RootNodeListDeserializer / ChildrenDeserializer ::visit_seq over the nodes w
\* from the k-th on, and RootNodeDeserializer / RecNodeDeserializer ::visit_seq
\* for each: the value, then the sequence of the children.
VisitSeqNested(w, k, trees) ==
    IF k > Len(w) THEN DeOk(k, trees)
    ELSE IF Len(w[k]) < 1 THEN DeErr("invalid length", 0, k)
    ELSE IF Len(w[k]) < 2 THEN DeErr("invalid length", 1, k)
    ELSE LET sub == VisitSeqNested(w[k][2], 1, <<>>)
         IN  IF ~sub.ok THEN sub
             ELSE VisitSeqNested(w, k + 1, Append(trees, Tree(w[k][1], sub.kids)))

\* Deserialize for the forest, human-readable form.
DeserializeNested(w) == VisitSeqNested(w, 1, <<>>)

\* The Vec of the forest a deserializer has built from the trees f.
BuiltVec(f) == [p \in 0 .. (Len(BuiltNodes(f)) - 1) |-> BuiltNodes(f)[p + 1]]

-----------------------------------------------------------------------------

\* test_json / test_bincode on the forest as it is: serialize, deserialize,
\* serialize again; whether the forest and the second output are the same.
SerdeRoundTrip ==
    /\ Idle
    /\ ~IsTreeDrain
    /\ \E form \in Linkages \cup {"nested"} :
         LET out == IF form \in Linkages THEN SerializeFlat(mem, len, form)
                                         ELSE SerializeNested(mem, len)
             d == IF form \in Linkages THEN DeserializeFlat(out) ELSE DeserializeNested(out)
             v == BuiltVec(d.kids)
             n == Len(BuiltNodes(d.kids))
             out2 == IF form \in Linkages THEN SerializeFlat(v, n, form)
                                           ELSE SerializeNested(v, n)
         IN  last' = Op("round_trip_" \o form,
                        IF d.ok /\ Committed(v, n) = Committed(mem, len) THEN 1 ELSE 0,
                        IF out2 = out THEN 1 ELSE 0)
    /\ UNCHANGED <<emptiedAt, wire, decoded, exactVars, owner, mem, len, cap,
                   chain, drains, iter, nextId, undropped, leakedN, badRead,
                   roots, snap, assertFailed, alive>>

\* No deserialization has run.
NotDecoded == [ok |-> FALSE, pos |-> 0, kids |-> <<>>, msg |-> "none", at |-> 0]

\* PackedForest::new() / with_capacity(): an empty forest.
InitForest ==
    /\ mem = [p \in Positions |-> Empty]
    /\ len = 0
    /\ cap \in 0 .. MaxInitCap
    /\ chain = <<>>
    /\ drains = {}
    /\ iter = NoIter
    /\ nextId = 1
    /\ undropped = 0
    /\ leakedN = 0
    /\ badRead = FALSE
    /\ roots = <<>>
    /\ snap = <<>>
    /\ last = Op("new", 0, 0)
    /\ assertFailed = FALSE
    /\ alive = TRUE
    /\ owner = "forest"
    /\ num_trees = 0
    /\ num_children = [v \in 1 .. MaxVals |-> 0]
    /\ iterLen = 0
    /\ drainLen = [d \in {} |-> 0]
    /\ emptiedAt = 0

Init ==
    /\ InitForest
    /\ wire = <<>>
    /\ decoded = NotDecoded

Next ==
    \/ GetTreeBuilder
    \/ BuildTree
    \/ GetChildBuilder
    \/ BuildChild
    \/ Finish
    \/ AddChild
    \/ AddSingleNodeTree
    \/ DropBuilder
    \/ ForgetBuilder
    \/ Panic
    \/ IterTrees
    \/ IterNext
    \/ IterChildren
    \/ IterEnd
    \/ GetNode
    \/ SumBothWays
    \/ TreeNew
    \/ TryFrom
    \/ TreeRoot
    \/ IntoForest
    \/ TreeDrain
    \/ DrainRoot
    \/ DrainFlattened
    \/ SerdeRoundTrip
    \/ DrainTrees
    \/ DrainNext
    \/ DrainDrop
    \/ DrainForget
    \/ Clear
    \/ DropForest

Spec == Init /\ [][Next]_vars

-----------------------------------------------------------------------------
(* Deserialization of arbitrary flat input.                                *)

\* Longest input.
MaxWire == 4
\* Largest offset an input declares.
MaxOffset == 4

\* The flat inputs: every sequence of FlatNodes up to the bounds; the value of
\* a node is its place in the input.
WireInputs ==
    UNION {{[i \in 1 .. n |-> FlatNode(i, o[i])] : o \in [1 .. n -> 0 .. MaxOffset]} :
           n \in 0 .. MaxWire}

InitWire ==
    /\ InitForest
    /\ wire \in WireInputs
    /\ decoded = NotDecoded

\* Deserialize for the forest, binary form, on the input.
DeserializeWire ==
    /\ decoded = NotDecoded
    /\ decoded' = DeserializeFlat(wire)
    /\ last' = Op("deserialize", Len(wire), decoded'.pos)
    /\ UNCHANGED <<emptiedAt, wire, exactVars, owner, mem, len, cap, chain,
                   drains, iter, nextId, undropped, leakedN, badRead, roots,
                   snap, assertFailed, alive>>

NextWire == DeserializeWire

SpecWire == InitWire /\ [][NextWire]_vars

-----------------------------------------------------------------------------
(* The logical forest and the ledger, for the properties below.            *)

RECURSIVE CountNodes(_), CountForest(_)
\* The number of nodes of a logical tree: itself and all its descendants.
CountNodes(t) == 1 + CountForest(t.kids)
CountForest(f) == IF f = <<>> THEN 0 ELSE CountNodes(Head(f)) + CountForest(Tail(f))

\* The textbook pre-order walk of a logical forest: its nodes, parent first.
RECURSIVE PreOrderNodes(_)
PreOrderNodes(f) ==
    IF f = <<>> THEN <<>>
    ELSE <<Head(f)>> \o PreOrderNodes(Head(f).kids) \o PreOrderNodes(Tail(f))

\* The sum of the subtree_size stored for the logical children kids of a node,
\* the first of which is at position q.
RECURSIVE SumKidSizes(_, _, _)
SumKidSizes(m, q, kids) ==
    IF kids = <<>> THEN 0
    ELSE SlotAt(m, q).size + SumKidSizes(m, q + CountNodes(Head(kids)), Tail(kids))

\* The sum of the subtree_size of the nodes NodeIter yields in the slice r.
RECURSIVE SumIterSizes(_, _)
SumIterSizes(m, r) ==
    IF SliceLen(r) <= 0 \/ ~SplitSound(m, r) THEN 0
    ELSE LeadingSize(m, r) + SumIterSizes(m, NodeIterNext(m, r).rest)

\* Following the leading sizes from the start of the slice r ends exactly at
\* its end.
RECURSIVE LandsOnEnd(_, _)
LandsOnEnd(m, r) ==
    \/ SliceLen(r) = 0
    \/ /\ SliceLen(r) > 0
       /\ SplitSound(m, r)
       /\ LandsOnEnd(m, Range(r.lo + LeadingSize(m, r), r.hi))

AllLive == {p \in Positions : mem[p].st = "live"}

\* The slots the open builders answer for.
Provisional ==
    UNION {InRange(BuilderDropLo(chain[k]), BuilderDropHi(chain[k])) : k \in 1 .. Len(chain)}

\* The slots the drains answer for.
Drainable == UNION {InRange(d.lo, d.hi) : d \in drains}

-----------------------------------------------------------------------------
(* C1: in every reachable state every committed node stores a subtree_size *)
(* that is 1 plus the sum of the subtree_size of its direct children, and  *)
(* that is the number of its descendants counting itself.                  *)
SizeInvariant ==
    LET nodes == PreOrderNodes(roots)
    IN  /\ Len(nodes) = len
        /\ \A p \in 0 .. (len - 1) :
             /\ mem[p].st = "live"
             /\ mem[p].size = CountNodes(nodes[p + 1])
             /\ mem[p].size = 1 + SumKidSizes(mem, p + 1, nodes[p + 1].kids)
             /\ mem[p].size = 1 + SumIterSizes(mem, NodeRefChildren(Range(p, p + mem[p].size)))

\* A committed tree of three levels, after a root finish.
SizeInvariantWitness ==
    /\ chain = <<>>
    /\ len >= 3
    /\ mem[0].size = 3
    /\ mem[1].size = 2

(* C2: iter_trees() and then children(), recursively, visit the nodes as a *)
(* pre-order walk of the logical forest: the roots in the order their      *)
(* builders were finished, and under each node the children finished under *)
(* it, in the order they were finished.                                    *)
PreOrderConsistency == IterWalk(mem, WholeSlice(len)) = roots

\* A committed tree whose root has two children.
PreOrderConsistencyWitness ==
    /\ chain = <<>>
    /\ Len(roots) = 1
    /\ Len(roots[1].kids) = 2

(* C3: while a root builder is open no get_child_builder, finish or drop of *)
(* its chain changes the committed length or a committed entry; only the   *)
(* finish of the root builder changes the length, and it adds exactly the  *)
(* root's running subtree size, publishing the root and its descendants.   *)
CommitOnlyAtRootFinish ==
    [][chain # <<>> =>
         /\ Committed(mem', len) = Committed(mem, len)
         /\ IF Len(chain) = 1 /\ chain' = <<>> /\ last'.op = "finish_root"
            THEN /\ len' = len + chain[1].subtree_size
                 /\ \A p \in len .. (len' - 1) : mem'[p].st = "live"
                 /\ \A p \in (len + 1) .. (len' - 1) : mem'[p] = mem[p]
            ELSE len' = len]_vars

\* A root was finished with descendants under it, after an earlier tree.
CommitOnlyAtRootFinishWitness ==
    /\ last.op = "finish_root"
    /\ last.a >= 1
    /\ last.b >= 2
    /\ len = last.a + last.b

(* C4: a panic in a callback drops every open builder, innermost first;    *)
(* every value finished under the aborted tree (and every value a frame    *)
(* held) is destroyed exactly once, and the forest holds exactly the trees *)
(* committed before the aborted build: the live values are the committed   *)
(* nodes (and what was leaked before).                                     *)
PanicUnwinds ==
    [][(chain # <<>> /\ chain' = <<>> /\ last'.op = "panic") =>
         /\ len' = len
         /\ Committed(mem', len') = snap
         /\ roots' = roots
         /\ {p \in Positions : mem'[p].st = "live"} = 0 .. (len - 1)
         /\ undropped' = undropped - Cardinality(AllLive \ (0 .. (len - 1))) - FramesHeld
         /\ undropped' = len + leakedN
         /\ ~badRead']_vars

\* A panic that destroyed at least two values while an earlier tree stays.
PanicUnwindsWitness ==
    /\ last.op = "panic"
    /\ last.b >= 2
    /\ len >= 1

(* C5: every value is moved out to the caller or destroyed by the          *)
(* container exactly once, never both and never twice (no slot is read out *)
(* a second time), every live value has exactly one owner (the Vec, one    *)
(* open builder or one drain), and once the forest and all drains are gone *)
(* nothing is left undestroyed but what was leaked with mem::forget.       *)
ExactlyOnce ==
    /\ ~badRead
    /\ undropped = Cardinality(AllLive) + FramesHeld + leakedN
    /\ AllLive = InRange(0, len) \cup Provisional \cup Drainable
    /\ InRange(0, len) \cap (Provisional \cup Drainable) = {}
    /\ \A d, e \in drains : d # e => InRange(d.lo, d.hi) \cap InRange(e.lo, e.hi) = {}
    /\ (~alive \/ (drains = {} /\ chain = <<>> /\ len = 0)) => undropped = leakedN

\* The rest of a partly consumed drain was dropped and nothing is left.
ExactlyOnceWitness ==
    /\ last.op = "drain_drop"
    /\ last.a >= 1
    /\ last.b >= 1
    /\ drains = {}
    /\ leakedN = 0
    /\ undropped = 0

(* C6: dropping a root builder without finish adds no nodes: the committed *)
(* contents are those of before get_tree_builder, and every value finished *)
(* under the builder is destroyed exactly once.                            *)
DropRootAddsNothing ==
    last.op = "drop_root" =>
        /\ chain = <<>>
        /\ Committed(mem, len) = snap
        /\ AllLive = InRange(0, len)
        /\ undropped = len + leakedN
        /\ ~badRead

\* A root builder with two finished children was dropped, after an earlier tree.
DropRootAddsNothingWitness ==
    /\ last.op = "drop_root"
    /\ last.b >= 3
    /\ len >= 1

(* C7: each NodeListDrain::next that yields a node splits the range of the *)
(* iterator into the slot of the yielded node, the range of the children   *)
(* drain and the range the iterator keeps, pairwise disjoint and covering  *)
(* it; a consumed slot lies in the range of no drain that exists.          *)
DrainSplitsInThree ==
    /\ [](\A d \in drains : \A p \in InRange(d.lo, d.hi) : mem[p].st = "live")
    /\ [][(last'.op = "drain_next" /\ drains' # drains) =>
            \E d \in drains : \E c, r \in drains' :
                /\ drains' = (drains \ {d}) \cup {c, r}
                /\ mem[d.lo].st = "live"
                /\ mem'[d.lo].st # "live"
                /\ c.lo = d.lo + 1
                /\ c.lo <= c.hi
                /\ c.hi = r.lo
                /\ r.lo <= r.hi
                /\ r.hi = d.hi
                /\ \A p \in InRange(c.lo, r.hi) : mem'[p] = mem[p]]_vars

\* A yielded node with a child, while a sibling remains in the iterator.
DrainSplitsInThreeWitness ==
    /\ last.op = "drain_next"
    /\ \E c, r \in drains : c.lo < c.hi /\ c.hi = r.lo /\ r.lo < r.hi

(* C8: draining yields the values NodeIter would have visited in the       *)
(* forest before the drain, in the same order and with the same grouping   *)
(* into children: what each drain still holds is what NodeIter had left to *)
(* visit there, and each value yielded is the one NodeIter had next.       *)
DrainFollowsIter ==
    /\ \A d \in drains : DrainWalk(mem, Range(d.lo, d.hi)) = d.expect
    /\ last.op = "drain_next" => (last.a = last.b /\ last.a # 0)

\* A node was yielded whose children drain holds a node.
DrainFollowsIterWitness ==
    /\ last.op = "drain_next"
    /\ \E d \in drains : d.lo >= 1 /\ d.lo < d.hi /\ d.expect # <<>>

(* C9: after drain_trees the forest is empty: the committed length is 0    *)
(* before any value is moved out, and stays 0 while the drains are         *)
(* iterated, dropped or leaked.                                            *)
EmptyAfterDrain ==
    /\ drains # {} => len = 0
    /\ last.op \in {"drain_trees", "drain_next", "drain_none", "drain_drop", "drain_forget"}
          => len = 0
    /\ last.op = "drain_trees" =>
          /\ AllLive = InRange(0, last.b)
          /\ drains = {Drain(Range(0, last.b), IterWalk(mem, Range(0, last.b)))}

\* A partly consumed drain was leaked and no drain is left.
EmptyAfterDrainWitness ==
    /\ last.op = "drain_forget"
    /\ last.a >= 1
    /\ last.b >= 1
    /\ drains = {}

(* C10: every next() of a NodeIter, NodeIterMut or NodeListDrain over a    *)
(* committed forest reads a leading subtree_size that is at most the       *)
(* remaining length, the remaining length decreases by exactly that size,  *)
(* and the iteration ends exactly at the end of the sibling run.           *)
IterationStaysInRun ==
    /\ [](/\ ~assertFailed
          /\ LandsOnEnd(mem, WholeSlice(len))
          /\ \A p \in 0 .. (len - 1) :
               LandsOnEnd(mem, NodeRefChildren(Range(p, p + mem[p].size)))
          /\ iter.kind # "none" =>
               /\ iter.hi <= len
               /\ LandsOnEnd(mem, Range(iter.lo, iter.hi))
          /\ \A d \in drains : LandsOnEnd(mem, Range(d.lo, d.hi)))
    /\ [][last'.op = "iter_next" /\ iter' # iter =>
            /\ mem[iter.lo].size <= iter.hi - iter.lo
            /\ iter'.hi - iter'.lo = (iter.hi - iter.lo) - mem[iter.lo].size
            /\ iter'.node = Range(iter.lo, iter.lo + mem[iter.lo].size)
            /\ iter'.lo = iter'.node.hi]_vars
    /\ [][last'.op = "drain_next" /\ drains' # drains =>
            \E d \in drains : \E r \in drains' :
                /\ mem[d.lo].size <= d.hi - d.lo
                /\ r.hi = d.hi
                /\ r.hi - r.lo = (d.hi - d.lo) - mem[d.lo].size]_vars

\* The iteration over the children of a node ended before the end of the Vec.
IterationStaysInRunWitness ==
    /\ last.op = "iter_none"
    /\ iter.lo = iter.hi
    /\ iter.lo >= 2
    /\ iter.lo < len

\* The nodes of the logical forest f, stored from position q on: each with its
\* position, its logical subtree and its later siblings.
RECURSIVE NodesAt(_, _)
NodesAt(f, q) ==
    IF f = <<>> THEN {}
    ELSE {[pos |-> q, tree |-> Head(f), next |-> Tail(f)]}
         \cup NodesAt(Head(f).kids, q + 1)
         \cup NodesAt(Tail(f), q + CountNodes(Head(f)))

(* C11: get(index) is Some exactly when index < tot_num_nodes(); the node  *)
(* returned is the one at pre-order position index with its whole subtree  *)
(* inside the committed length, its first child (if any) is at index + 1,  *)
(* and its next sibling (if any) is at index + subtree_size.               *)
GetIsPreOrderLookup ==
    /\ \A index \in Indices : Get(mem, len, index).some <=> index < len
    /\ Cardinality(NodesAt(roots, 0)) = len
    /\ \A n \in NodesAt(roots, 0) :
         LET g == Get(mem, len, n.pos)
         IN  /\ g.some
             /\ g.node.lo = n.pos
             /\ g.node.hi <= len
             /\ SliceLen(g.node) = CountNodes(n.tree)
             /\ IterWalk(mem, g.node) = <<n.tree>>
             /\ n.tree.kids # <<>> =>
                   /\ n.pos + 1 < g.node.hi
                   /\ IterWalk(mem, Get(mem, len, n.pos + 1).node) = <<Head(n.tree.kids)>>
             /\ n.next # <<>> =>
                   /\ Get(mem, len, g.node.hi).some
                   /\ IterWalk(mem, Get(mem, len, g.node.hi).node) = <<Head(n.next)>>
    /\ last.op = "get" =>
         /\ last.a < len
         /\ iter.node = Range(last.a, last.a + mem[last.a].size)
         /\ iter.node.hi <= len
    /\ last.op = "get_none" => last.a >= len

\* get returned a node that has a child and a next sibling.
GetIsPreOrderLookupWitness ==
    /\ last.op = "get"
    /\ last.b = 2
    /\ \E n \in NodesAt(roots, 0) :
         n.pos = last.a /\ n.tree.kids # <<>> /\ n.next # <<>>

RECURSIVE WalkVals(_)
\* The values of the nodes of a walk, in the order the walk visits them.
WalkVals(f) ==
    IF f = <<>> THEN <<>>
    ELSE <<Head(f).val>> \o WalkVals(Head(f).kids) \o WalkVals(Tail(f))

(* C12: iter_flattened() yields the values in the order in which the       *)
(* recursive walk (iter_trees() then children()) visits them, so the sum   *)
(* over the values is the same both ways; for the forest of the tests both *)
(* sums are 323.                                                           *)
FlattenedFollowsWalk ==
    /\ IterFlattened(mem, len) = WalkVals(IterWalk(mem, WholeSlice(len)))
    /\ CountFlattened(mem, len) = Count(mem, len)
    /\ last.op = "sum" => last.a = last.b
    /\ IterFlattened(BuildStore, Len(BuiltNodes(BuildStoreTrees)))
          = WalkVals(IterWalk(BuildStore, WholeSlice(Len(BuiltNodes(BuildStoreTrees)))))
    /\ IterWalk(BuildStore, WholeSlice(Len(BuiltNodes(BuildStoreTrees)))) = BuildStoreTrees
    /\ CountFlattened(BuildStore, Len(BuiltNodes(BuildStoreTrees))) = 323
    /\ Count(BuildStore, Len(BuiltNodes(BuildStoreTrees))) = 323

\* Both sums were taken on a forest of a tree with a child and a second tree.
FlattenedFollowsWalkWitness ==
    /\ last.op = "sum"
    /\ last.a = 6
    /\ len = 3
    /\ mem[0].size = 2

(* C13: try_from_forest (and TryFrom) succeeds exactly when the forest has *)
(* exactly one root: it fails for a forest with no root and for a forest   *)
(* with two or more; on success the root of the tree is that single root   *)
(* with its whole subtree, on failure the forest is gone.                  *)
TryFromNeedsOneRoot ==
    /\ TryFromForest(mem, len) <=> Len(roots) = 1
    /\ last.op = "try_from_forest" =>
         /\ last.a = 1 <=> last.b = 1
         /\ last.a = 1 =>
               /\ alive
               /\ owner = "tree"
               /\ Len(roots) = 1
               /\ Root(mem, len).some
               /\ IterWalk(mem, Root(mem, len).node) = roots
               /\ Root(mem, len).node = WholeSlice(len)
         /\ last.a = 0 => (~alive /\ owner = "forest" /\ len = 0)

\* A forest of one tree with a descendant was turned into a PackedTree, after a
\* build that followed the conversion of an earlier tree back into a forest.
TryFromNeedsOneRootWitness ==
    /\ last.op = "try_from_forest"
    /\ last.a = 1
    /\ len >= 2
    /\ mem[0].size = len

(* C14: every PackedTree, made by new, new_by_ret_val or try_from_forest,  *)
(* has exactly one root whose subtree is the whole storage: its            *)
(* subtree_size is tot_num_nodes() and at least 1, so root() and           *)
(* root_mut() never fail, also after nodes were reached through them       *)
(* (until the tree is dropped).                                            *)
TreeHasOneRoot ==
    /\ (owner = "tree" /\ alive) =>
         /\ chain = <<>>
         /\ len >= 1
         /\ mem[0].st = "live"
         /\ mem[0].size = len
         /\ Len(roots) = 1
         /\ Root(mem, len).some
         /\ Root(mem, len).node = WholeSlice(len)
    /\ last.op # "root_panic"
    /\ last.op = "root" => (iter.node = WholeSlice(len) /\ last.b = len)

\* root_mut() of a tree of three nodes.
TreeHasOneRootWitness ==
    /\ last.op = "root"
    /\ iter.kind = "refmut"
    /\ last.b = 3
    /\ cap >= 3
    /\ nextId = 4

(* C15: for every node built through ExactSizeNodeBuilder the num_children *)
(* recorded with the node equals the number of direct children that were   *)
(* finished under it.  The code never counts a child: num_children is 0 in *)
(* every node.                                                             *)
NumChildrenRecorded ==
    \A n \in NodesAt(roots, 0) : NumChildrenOf(mem, n.pos) = Len(n.tree.kids)

(* C16: len() and size_hint() of an ExactSizeNodeIter, ExactSizeNodeIterMut *)
(* or ExactSizeNodeListDrain are, at any point of the iteration, the number *)
(* of items next() will still yield.  The code reports the num_trees or    *)
(* num_children it started from, which are 0, and never counts down.       *)
ExactLenIsRemaining ==
    /\ iter.kind \in {"shared", "mut"} =>
          iterLen = Len(IterWalk(mem, Range(iter.lo, iter.hi)))
    /\ \A d \in drains : drainLen[d] = Len(DrainWalk(mem, Range(d.lo, d.hi)))

\* Some node of the input declares more descendants than the input has
\* elements after it.
Overrun(q) == \E i \in 1 .. Len(q) : q[i].offset >= 1 /\ q[i].offset - 1 > Len(q) - i

\* C17: deserializing a flat pre-order sequence in which a node's offset asks
\* for more elements than the sequence still holds returns a decode error: the
\* deserializer returns no forest for it, and it reads no element beyond the
\* end of the sequence.
OverrunIsDecodeError ==
    (decoded # NotDecoded /\ Overrun(wire)) =>
        /\ ~decoded.ok
        /\ decoded.kids = <<>>
        /\ decoded.msg \in {"offset too large", "offset invalid"}
        /\ decoded.pos <= Len(wire) + 1

\* An input whose last node asks for two more elements has been rejected at
\* the end of the input.
OverrunIsDecodeErrorWitness ==
    /\ decoded # NotDecoded
    /\ Len(wire) = 3
    /\ wire[1].offset = 0 /\ wire[2].offset = 1 /\ wire[3].offset = 3
    /\ decoded.msg = "offset too large"
    /\ decoded.pos = Len(wire) + 1

\* The forms a forest is written in: the flat form under either linkage, and
\* the nested form.
RoundTripOps == {"round_trip_" \o form : form \in Linkages \cup {"nested"}}

\* C18: serializing a forest built with the builders and deserializing the
\* output, in the nested form and in the flat form, gives a forest with the
\* same values in the same order and the same subtree sizes, and serializing
\* that forest gives the same output again.
SerdeRoundTripIsIdentity ==
    last.op \in RoundTripOps => (last.a = 1 /\ last.b = 1)

\* A forest of two trees, the first with a child under its root, has gone
\* through the flat form.
SerdeRoundTripIsIdentityWitness ==
    /\ last.op = "round_trip_sibling_offset"
    /\ last.a = 1
    /\ Len(roots) = 2
    /\ roots[1].kids # <<>>
    /\ len = 3

\* C19: std::mem::forget of a NodeBuilder with finished children under it adds
\* no node to the forest and leaves the committed slots as they were; the
\* values finished under it are not destroyed then and stay undestroyed ever
\* after; no slot is read out twice; and every forest built once something
\* was leaked still satisfies the size invariant.
LeakedBuilderIsSafe ==
    /\ [](leakedN > 0 => (SizeInvariant /\ ~badRead /\ undropped >= leakedN))
    /\ [][/\ leakedN' >= leakedN
          /\ last'.op = "forget_builder" =>
                /\ len' = len
                /\ roots' = roots
                /\ Committed(mem', len') = Committed(mem, len)
                /\ undropped' = undropped
                /\ leakedN' = leakedN + (last'.b - 1)]_vars

\* A root builder with a finished child under it was leaked, after an earlier
\* tree was committed.
LeakedBuilderIsSafeWitness ==
    /\ last.op = "forget_builder"
    /\ last.b >= 2
    /\ leakedN >= 1
    /\ chain = <<>>
    /\ len >= 1

\* clear() has returned, or the last drain of drain_trees() has been dropped.
JustEmptied == last.op = "clear" \/ (last.op = "drain_drop" /\ drains = {})

\* C20: once the drain of drain_trees() is dropped, or after clear(), the
\* forest is empty and every value it held is destroyed; the next
\* get_tree_builder (or build_tree) reserves position 0; and the forest built
\* afterwards satisfies the size and pre-order properties, holds only values
\* created after the emptying, and no slot is read out a second time.
ReusableAfterEmptying ==
    /\ [](JustEmptied =>
            (len = 0 /\ roots = <<>> /\ AllLive = {} /\ undropped = leakedN))
    /\ [](emptiedAt > 0 =>
            /\ SizeInvariant
            /\ PreOrderConsistency
            /\ ~badRead
            /\ \A p \in InRange(0, len) \cup Provisional : mem[p].val >= emptiedAt)
    /\ [][(emptiedAt > 0 /\ len = 0 /\ last'.op \in {"get_tree_builder", "build_tree"})
            => (chain'[1].index = 0 /\ last'.a = 0)]_vars

\* After clear() or a dropped drain destroyed the first tree, a root with one
\* child was built at position 0.
ReusableAfterEmptyingWitness ==
    /\ last.op = "finish_root"
    /\ last.a = 0
    /\ emptiedAt = 2
    /\ len = 2
    /\ mem[0].val = 3 /\ mem[1].val = 2
    /\ undropped = 2 /\ leakedN = 0

\* C21: the first drain_root of a PackedTreeDrain returns the value of the
\* root and a drain over exactly the children of the root; every later
\* drain_root returns None and touches nothing; and once drain_root (or
\* drain_flattened) has run, drain_flattened has nothing to yield.
DrainRootOnce ==
    /\ [][(owner = "tree_drain" /\ last'.op \in {"drain_root", "drain_root_none"}) =>
            /\ last'.op = "drain_root"
            /\ last'.a = roots[1].val
            /\ drains' = {Drain(Range(1, len), roots[1].kids)}
            /\ mem' = ReadOut(mem, 0, 1)
            /\ undropped' = undropped - 1
            /\ len' = 0
            /\ ~badRead']_vars
    /\ [][(owner = "tree_drained" /\ last'.op \in {"drain_root", "drain_root_none"}) =>
            /\ last'.op = "drain_root_none"
            /\ drains' = {}
            /\ mem' = mem
            /\ undropped' = undropped]_vars
    /\ [][(owner = "tree_drained" /\ last'.op = "drain_flattened") =>
            /\ last'.a = 0
            /\ mem' = mem
            /\ undropped' = undropped]_vars

\* The first drain_root of a tree whose root has a child returned the root
\* and the drain of its children.
DrainRootOnceWitness ==
    /\ last.op = "drain_root"
    /\ last.b >= 1
    /\ owner = "tree_drained"
    /\ len = 0
    /\ \E d \in drains : d.lo = 1 /\ d.expect # <<>>

\* The node a finish has just added to the logical forest f.
LastOf(f) == f[Len(f)]

\* C22: the index a builder reports is the pre-order position of its node.
\* When a child builder finishes, the node it adds to its parent lies at the
\* reported index in the pre-order layout of the parent's children (which
\* starts right after the parent's own index) and the slot there holds the
\* value given to finish and the size of the subtree; the nodes finished under
\* the open builders stay at these positions; and when the root builder
\* finishes, get(index) returns, for the root and for every node finished
\* under it, that node with its value and its whole subtree.
IndexIsCommittedPosition ==
    /\ [](\A k \in 1 .. Len(chain) :
            \A n \in NodesAt(chain[k].kids, chain[k].index + 1) :
               mem[n.pos] = NodeData(n.tree.val, CountNodes(n.tree)))
    /\ [][last'.op = "finish_child" =>
            LET par == chain'[Len(chain')]
                t == LastOf(par.kids)
            IN  /\ t.val = nextId
                /\ [pos |-> last'.a, tree |-> t, next |-> <<>>]
                       \in NodesAt(par.kids, par.index + 1)
                /\ mem'[last'.a] = NodeData(nextId, CountNodes(t))]_vars
    /\ [][last'.op = "finish_root" =>
            LET t == LastOf(roots')
            IN  /\ t.val = nextId
                /\ [pos |-> last'.a, tree |-> t, next |-> <<>>] \in NodesAt(roots', 0)
                /\ chain # <<>> =>
                      NodesAt(chain[1].kids, chain[1].index + 1) \subseteq NodesAt(roots', 0)
                /\ \A n \in NodesAt(<<t>>, last'.a) :
                      LET g == Get(mem', len', n.pos)
                      IN  /\ g.some
                          /\ g.node = Range(n.pos, n.pos + CountNodes(n.tree))
                          /\ mem'[n.pos].val = n.tree.val
                          /\ IterWalk(mem', g.node) = <<n.tree>>]_vars

\* A root builder with index 1 finished, behind an earlier tree, after a child
\* with index 2 was finished under it.
IndexIsCommittedPositionWitness ==
    /\ last.op = "finish_root"
    /\ last.a = 1
    /\ last.b = 2
    /\ len = 3
    /\ Get(mem, len, 2).some
    /\ mem[2].val < mem[1].val

\* A root with no children has just been committed to an empty forest.
SingleNodeBuilt == last.op = "finish_root" /\ last.a = 0 /\ last.b = 1

\* C23: after a tree with no children is built on an empty forest (by
\* add_single_node_tree, or by a root builder under which nothing was
\* finished), tot_num_nodes() is 1, iter_trees() yields one root and then
\* nothing, children() of the root yields nothing, and draining yields exactly
\* the value of the root with an empty children drain and nothing after it.
SingleNodeTree ==
    SingleNodeBuilt =>
        LET it == NodeIterNext(mem, WholeSlice(len))
            dr == NodeListDrainNext(mem, Range(0, len))
        IN  /\ TotNumNodes(len) = 1
            /\ mem[0].st = "live"
            /\ it.first = Range(0, 1)
            /\ SliceLen(it.rest) = 0
            /\ SliceLen(NodeRefChildren(it.first)) = 0
            /\ IterWalk(mem, WholeSlice(len)) = <<Tree(mem[0].val, <<>>)>>
            /\ dr.slot = 0
            /\ SliceLen(dr.children) = 0
            /\ SliceLen(dr.rest) = 0
            /\ DrainWalk(mem, Range(0, len)) = <<Tree(mem[0].val, <<>>)>>

\* A single-node tree is all the forest holds, built after the forest had
\* been emptied or an earlier construction had been given up.
SingleNodeTreeWitness ==
    /\ SingleNodeBuilt
    /\ len = 1
    /\ mem[0].val >= 2
    /\ roots = <<Tree(mem[0].val, <<>>)>>

RECURSIVE MutViews(_, _)
\* The NodeRefMuts that successive NodeIterMut::next calls yield from the
\* slice r, all of them alive together (each borrows for the lifetime of the
\* slice, not of the iterator).
MutViews(m, r) ==
    IF SliceLen(r) <= 0 \/ ~SplitSound(m, r) THEN <<>>
    ELSE LET n == NodeIterMutNext(m, r)
         IN  <<n.first>> \o MutViews(m, n.rest)

RECURSIVE RemainingAfter(_, _, _)
\* remaining_nodes of a NodeIterMut over r after k calls of next.
RemainingAfter(m, r, k) ==
    IF k = 0 \/ SliceLen(r) <= 0 \/ ~SplitSound(m, r) THEN r
    ELSE RemainingAfter(m, NodeIterMutNext(m, r).rest, k - 1)

\* The slices a NodeIterMut is made over: the whole forest (iter_trees_mut),
\* and the children of every committed node (NodeRefMut::children).
MutIterSlices ==
    {WholeSlice(len)} \cup
    {NodeRefMutChildren(GetUnchecked(mem, p)) : p \in InRange(0, len)}

\* C24: the NodeRefMuts yielded by successive next() calls of one NodeIterMut
\* and the range the iterator still holds are pairwise disjoint ranges of the
\* array, inside the slice the iterator was made over; and the node the
\* iterator in use has just yielded shares no slot with what it keeps.
MutViewsDisjoint ==
    /\ \A top \in MutIterSlices :
         LET v == MutViews(mem, top)
         IN  /\ \A i \in 1 .. Len(v) :
                   /\ top.lo <= v[i].lo /\ v[i].lo < v[i].hi /\ v[i].hi <= top.hi
                   /\ \A j \in 1 .. Len(v) :
                         i # j => InRange(v[i].lo, v[i].hi) \cap InRange(v[j].lo, v[j].hi) = {}
             /\ \A k \in 0 .. Len(v) :
                   LET rem == RemainingAfter(mem, top, k)
                   IN  /\ top.lo <= rem.lo /\ rem.hi = top.hi
                       /\ \A i \in 1 .. k :
                             InRange(v[i].lo, v[i].hi) \cap InRange(rem.lo, rem.hi) = {}
                       /\ UNION {InRange(v[i].lo, v[i].hi) : i \in 1 .. k}
                              \cup InRange(rem.lo, rem.hi) = InRange(top.lo, top.hi)
    /\ (iter.kind = "mut" /\ last.op = "iter_next") =>
         /\ \E top \in MutIterSlices :
               \E i \in 1 .. Len(MutViews(mem, top)) : iter.node = MutViews(mem, top)[i]
         /\ iter.node.hi = iter.lo
         /\ InRange(iter.node.lo, iter.node.hi) \cap InRange(iter.lo, iter.hi) = {}

\* The second next() of an iter_trees_mut() yielded the second tree while a
\* third is still in the iterator.
MutViewsDisjointWitness ==
    /\ iter.kind = "mut"
    /\ last.op = "iter_next"
    /\ iter.node.lo >= 1
    /\ iter.lo < iter.hi
    /\ Len(MutViews(mem, WholeSlice(len))) >= 3

\* The positions beyond the committed length that hold a live value.
LiveBeyondLen == {p \in AllLive : p >= len}

\* C25: while builders are open and nothing was leaked, for each open builder
\* b every slot of index+1 .. index+subtree_size-1 holds a live value, lies at
\* or beyond the committed length and inside the capacity; and the slots
\* beyond the committed length that hold a live value are exactly the slots
\* of these ranges.
BuilderRangesInitialized ==
    (chain # <<>> /\ leakedN = 0) =>
        /\ \A k \in 1 .. Len(chain) :
             \A p \in BuilderDropLo(chain[k]) .. (BuilderDropHi(chain[k]) - 1) :
                /\ p \in Positions
                /\ mem[p].st = "live"
                /\ p >= len
                /\ p < cap
        /\ LiveBeyondLen = Provisional

\* A child builder with a finished child of its own is open under a root
\* builder, behind a committed tree.
BuilderRangesInitializedWitness ==
    /\ Len(chain) = 2
    /\ leakedN = 0
    /\ len = 1
    /\ chain[1].index = 1
    /\ chain[2].index = 2
    /\ chain[2].subtree_size = 2
    /\ mem[3].st = "live"

\* C26: a root builder's index is the committed length when the builder is
\* created, while it is open and when it is finished or dropped (the
\* debug_assert_eq!(index, data_len) of finish never fails); a child builder's
\* index is its parent's index plus the parent's subtree_size when the child
\* is created, while it is open and when it is finished or dropped.
BuilderIndexInvariant ==
    /\ [](\A k \in 1 .. Len(chain) :
            IF chain[k].parent = 0
            THEN chain[k].index = len
            ELSE /\ chain[k].parent = k - 1
                 /\ chain[k].index = chain[k - 1].index + chain[k - 1].subtree_size)
    /\ [](chain # <<>> => ~assertFailed)
    /\ [][/\ last'.op \in {"get_tree_builder", "build_tree", "tree_new"} =>
               chain'[Len(chain')].index = len /\ len' = len
          /\ last'.op \in {"get_child_builder", "build_child"} =>
               chain'[Len(chain')].index = Top.index + Top.subtree_size
          /\ last'.op \in {"finish_root", "drop_root"} =>
               last'.a = len /\ ~assertFailed'
          /\ last'.op \in {"finish_child", "drop_child"} =>
               LET par == chain[Len(chain')]
               IN  last'.a = par.index + par.subtree_size /\ ~assertFailed']_vars

\* A second child builder was finished under a root builder whose first child
\* has a child of its own, on an empty forest: its index was 1 + 2.
BuilderIndexInvariantWitness ==
    /\ last.op = "finish_child"
    /\ last.a = 3
    /\ Len(chain) = 1
    /\ chain[1].index = 0
    /\ chain[1].subtree_size = 4

\* The slots of an open builder: index+1 .. index+subtree_size-1.
SlotsOf(b) == InRange(b.index + 1, b.index + b.subtree_size)

\* C27: dropping an unfinished builder destroys exactly the entries at
\* index+1 .. index+subtree_size-1, each of them live, and leaves every other
\* slot as it was, the committed entries and the entries of the ancestor
\* builders among them; the ranges of the open builders of a chain are
\* pairwise disjoint; and unwinding the whole chain destroys exactly the
\* entries of these ranges, each once.
DropDestroysOwnRange ==
    /\ [](\A j, k \in 1 .. Len(chain) : j # k => SlotsOf(chain[j]) \cap SlotsOf(chain[k]) = {})
    /\ [][last'.op \in {"drop_root", "drop_child"} =>
            /\ \A p \in SlotsOf(Top) : mem[p].st = "live" /\ mem'[p] = Empty
            /\ \A p \in Positions \ SlotsOf(Top) : mem'[p] = mem[p]
            /\ undropped' = undropped - (Top.subtree_size - 1)
            /\ Cardinality(SlotsOf(Top)) = Top.subtree_size - 1
            /\ len' = len
            /\ chain' = Front(chain)
            /\ ~badRead']_vars
    /\ [][last'.op = "panic" =>
            /\ \A p \in Provisional : mem[p].st = "live" /\ mem'[p] = Empty
            /\ \A p \in Positions \ Provisional : mem'[p] = mem[p]
            /\ undropped' = undropped - Cardinality(Provisional) - FramesHeld
            /\ len' = len
            /\ ~badRead']_vars

\* A child builder with a finished child was dropped; the first child of the
\* root builder, finished before, is still in its slot.
DropDestroysOwnRangeWitness ==
    /\ last.op = "drop_child"
    /\ last.b = 2
    /\ Len(chain) = 1
    /\ chain[1].subtree_size = 2
    /\ mem[chain[1].index + 1].st = "live"
    /\ mem[chain[1].index + 3] = Empty

\* C28: finish on a child builder with running size s writes the value and
\* the size s at the child's index, adds exactly s to the running
\* subtree_size of the parent builder, and leaves the committed length, every
\* other slot and every other builder of the chain unchanged.
ChildFinishFrame ==
    [][last'.op = "finish_child" =>
        LET k == Len(chain')
            s == last'.b
            i == last'.a
        IN  /\ k >= 1
            /\ i = chain[k].index + chain[k].subtree_size
            /\ mem'[i] = NodeData(nextId, s)
            /\ chain'[k].subtree_size = chain[k].subtree_size + s
            /\ chain'[k].index = chain[k].index
            /\ \A j \in 1 .. (k - 1) : chain'[j] = chain[j]
            /\ \A p \in InRange(i + 1, i + s) : mem[p].st = "live"
            /\ \A p \in Positions \ {i} : mem'[p] = mem[p]
            /\ len' = len
            /\ Committed(mem', len') = Committed(mem, len)]_vars

\* A child builder with running size 2 was finished under a root builder that
\* already had a finished child: the parent's size went from 2 to 4.
ChildFinishFrameWitness ==
    /\ last.op = "finish_child"
    /\ last.b = 2
    /\ Len(chain) = 1
    /\ chain[1].subtree_size = 4
    /\ last.a = chain[1].index + 2

RECURSIVE ForestVals(_)
\* The values of all the nodes of a logical forest.
ForestVals(f) ==
    IF f = <<>> THEN {}
    ELSE {Head(f).val} \cup ForestVals(Head(f).kids) \cup ForestVals(Tail(f))

\* C29: dropping a child builder without finish leaves the parent builder as
\* it was, its running subtree_size included, so the next get_child_builder
\* on the parent reserves the index the dropped child had; the values
\* finished under the dropped child are in no slot and in no builder's
\* children any more; and the subtree of every open builder, and of every
\* node when it is finished, consists of exactly the nodes finished under it.
DroppedChildLeavesNoTrace ==
    /\ [](\A k \in 1 .. Len(chain) :
            IterWalk(mem, Range(chain[k].index + 1, chain[k].index + chain[k].subtree_size))
                = chain[k].kids)
    /\ [](last.op = "drop_child" => ChildIndex(Top) = last.a)
    /\ [][last'.op = "drop_child" =>
            LET gone == {mem[p].val : p \in SlotsOf(Top)}
            IN  /\ chain' = Front(chain)
                /\ \A p \in AllLive' : mem'[p].val \notin gone
                /\ \A k \in 1 .. Len(chain') : ForestVals(chain'[k].kids) \cap gone = {}
                /\ ForestVals(roots') \cap gone = {}
                /\ \A v \in gone : v < nextId']_vars
    /\ [][last'.op \in {"finish_child", "finish_root"} =>
            LET t == IF last'.op = "finish_root" THEN LastOf(roots')
                     ELSE LastOf(chain'[Len(chain')].kids)
            IN  /\ t.val = nextId
                /\ Len(chain') = Len(chain) - 1 => t.kids = Top.kids
                /\ Len(chain') = Len(chain) => t.kids = <<>>
                /\ IterWalk(mem', Range(last'.a, last'.a + last'.b)) = <<t>>]_vars

\* A child builder with a finished child was dropped under a root builder
\* that has no finished child, behind a committed tree.
DroppedChildLeavesNoTraceWitness ==
    /\ last.op = "drop_child"
    /\ last.b = 2
    /\ Len(chain) = 1
    /\ chain[1].subtree_size = 1
    /\ chain[1].kids = <<>>
    /\ len = 1
    /\ last.a = 2

\* C30: every finish writes at an index at or beyond the committed length
\* (the debug_assert!(index >= data_len) never fails) and, when nothing was
\* leaked, at a slot that holds no live value; the committed entries that
\* were there before the finish are unchanged, and so is every provisional
\* entry.  The index of every open builder is such a slot all along.
FinishNeverOverwrites ==
    /\ [](\A k \in 1 .. Len(chain) :
            /\ chain[k].index >= len
            /\ leakedN = 0 => SlotAt(mem, chain[k].index) = Empty)
    /\ [][last'.op \in {"finish_child", "finish_root"} =>
            LET i == last'.a
            IN  /\ i >= len
                /\ ~assertFailed'
                /\ leakedN = 0 => mem[i] = Empty
                /\ i \notin Provisional
                /\ Committed(mem', len) = Committed(mem, len)
                /\ \A p \in AllLive : mem'[p] = mem[p]
                /\ AllLive' = AllLive \cup {i}]_vars

\* A root builder was finished behind two committed trees, in a buffer that
\* has grown to hold the three of them.
FinishNeverOverwritesWitness ==
    /\ last.op = "finish_root"
    /\ last.a = 2
    /\ len = 3
    /\ leakedN = 0
    /\ cap >= 3
    /\ \A p \in 0 .. 2 : mem[p].st = "live"

\* The finish calls.
FinishOps == {"finish_child", "finish_root"}

\* C31: when finish has to grow the backing store (index + subtree_size is
\* more than the capacity), whether or not the reallocation copies anything
\* beyond the reported length, every provisional entry written earlier lies
\* below the length reported during the reservation and holds the same value
\* and size afterwards, the reservation leaves the length of the Vec at its
\* value before the call (a child's finish leaves it there), and the capacity
\* afterwards is at least index + subtree_size.
GrowthKeepsProvisional ==
    [][(last'.op \in FinishOps /\ nextId' = nextId + 1
            /\ last'.a + last'.b > cap) =>
        LET needed_capacity == last'.a + last'.b
        IN  /\ cap' >= needed_capacity
            /\ \A p \in LiveBeyondLen :
                  /\ p < ReportedLen(cap, len)
                  /\ mem'[p] = mem[p]
            /\ \A p \in 0 .. (len - 1) : mem'[p] = mem[p]
            /\ \A keep \in BOOLEAN :
                  EnsureCapacity(mem, cap, len, needed_capacity, keep).len = len
            /\ (last'.op = "finish_child" => len' = len)]_vars

\* The second child of a root is finished while the first is provisional, in
\* a forest made with capacity 0: the first finish took the capacity to 2,
\* this one needs 3 and took it to 5.
GrowthKeepsProvisionalWitness ==
    /\ last = Op("finish_child", 2, 1)
    /\ nextId = 3
    /\ len = 0
    /\ mem[1].st = "live"
    /\ mem[2].st = "live"
    /\ cap = 5

\* The capacities a Vec of the forests considered here can have.
Capacities == 0 .. (MaxVals + MaxDepth)

\* C32: the committed contents do not depend on the capacity the forest was
\* created with (new() or with_capacity(n)) nor on the reallocations during
\* construction: they are always the Vec that the sequence of builder calls
\* alone determines (the trees finished so far, laid out in pre-order with
\* their sizes), and every finish writes the same entries it would write with
\* any other capacity that holds what was written before.
CapacityIndependent ==
    /\ []((alive /\ drains = {}) => Committed(mem, len) = BuiltVec(roots))
    /\ [][(last'.op \in FinishOps /\ nextId' = nextId + 1) =>
            \A c \in Capacities, keep \in BOOLEAN :
               (c >= len /\ \A p \in LiveBeyondLen : p < c) =>
                  LET g == EnsureCapacity(mem, c, len, last'.a + last'.b, keep)
                  IN  /\ [g.mem EXCEPT ![last'.a] = mem'[last'.a]] = mem'
                      /\ g.cap >= last'.a + last'.b]_vars

\* A tree of three nodes is committed in a forest whose capacity has grown to
\* 5: more than with_capacity gave it, so there were reallocations.
CapacityIndependentWitness ==
    /\ last.op = "finish_root"
    /\ chain = <<>>
    /\ len = 3
    /\ cap = 5
    /\ Committed(mem, len) = BuiltVec(roots)

\* C33: values are labelled in the order finish writes them.  When finish
\* writes position p with size s, every position of p+1 .. p+s-1 already
\* holds an entry written earlier (a smaller label) that the step leaves as
\* it is, and position p holds no entry yet; so among the committed entries
\* every node was written after all its descendants, although the walk
\* (iter_trees then children, recursively) visits it before them.
WrittenAfterDescendants ==
    /\ [][(last'.op \in FinishOps /\ nextId' = nextId + 1) =>
            LET p == last'.a
                s == last'.b
            IN  /\ \A q \in InRange(p + 1, p + s) :
                      /\ mem[q].st = "live"
                      /\ mem[q].val < nextId
                      /\ mem'[q] = mem[q]
                /\ p \notin AllLive
                /\ \A q \in AllLive : mem[q].val # nextId
                /\ mem'[p] = NodeData(nextId, s)]_vars
    /\ [](LET walk == WalkVals(IterWalk(mem, WholeSlice(len)))
          IN  \A p \in 0 .. (len - 1) :
                 /\ walk[p + 1] = mem[p].val
                 /\ \A q \in InRange(p + 1, p + mem[p].size) :
                       /\ q < len
                       /\ walk[q + 1] = mem[q].val
                       /\ mem[q].val < mem[p].val)

\* A committed tree of three levels: the root was written last and is
\* visited first, its grandchild was written first and is visited last.
WrittenAfterDescendantsWitness ==
    /\ last.op = "finish_root"
    /\ last.b = 3
    /\ len = last.a + 3
    /\ mem[last.a].val = nextId - 1
    /\ mem[last.a + 1].size = 2
    /\ mem[last.a + 2].val < mem[last.a + 1].val
    /\ mem[last.a + 1].val < mem[last.a].val

\* The steps that end a build without committing it: the drop of the root
\* builder (after the builders under it were dropped), or a panic unwinding
\* the whole chain.
AbortOps == {"drop_root", "panic"}

\* The calls that start a tree.
StartOps == {"build_tree", "get_tree_builder"}

\* The values held by the live slots of a buffer.
LiveVals(m) == {m[p].val : p \in {q \in Positions : m[q].st = "live"}}

\* C34: an aborted build (its root builder dropped, or the chain unwound by
\* a panic) leaves the committed entries as they were when the build began
\* and no live entry beyond them, and none of the values the build had
\* written is in the buffer any more; values are never written twice, so
\* they do not come back.  A build started next gets as index the committed
\* length from before the abort, and when its root is finished the forest
\* holds the earlier trees and the new one, satisfies the size invariant and
\* its entries are those of the logical forest.
AbortedBuildLeavesNoTrace ==
    /\ [][last'.op \in AbortOps =>
            /\ chain' = <<>>
            /\ len' = len
            /\ Committed(mem', len') = snap
            /\ LiveBeyondLen' = {}
            /\ \A p \in LiveBeyondLen : mem[p].val \notin LiveVals(mem')]_vars
    /\ [](\A v \in LiveVals(mem) : v < nextId)
    /\ [][(last.op \in AbortOps /\ last'.op \in StartOps) =>
            /\ Len(chain') = 1
            /\ chain'[1].index = Cardinality(DOMAIN snap)
            /\ chain'[1].index = len
            /\ chain'[1].subtree_size = 1
            /\ LiveBeyondLen' = {}]_vars
    /\ [][(last'.op = "finish_root" /\ chain # <<>>) =>
            /\ Committed(mem', len) = snap
            /\ \A p \in len .. (len' - 1) :
                  mem'[p].val \in ForestVals(<<LastOf(roots')>>)
            /\ Committed(mem', len') = BuiltVec(roots')
            /\ SizeInvariant']_vars

\* A tree was committed (value 1), a build that had written value 2 was
\* aborted, and the tree built after it (value 3) lies right behind the
\* first one.
AbortedBuildLeavesNoTraceWitness ==
    /\ last = Op("finish_root", 1, 1)
    /\ len = 2
    /\ mem[0] = NodeData(1, 1)
    /\ mem[1] = NodeData(3, 1)
    /\ LiveVals(mem) = {1, 3}
    /\ leakedN = 0
    /\ SizeInvariant

\* C35: every NodeRef / NodeRefMut handed out spans at least one entry.  The
\* node an iterator started by iter_trees or children has yielded, and the
\* node get has returned, is a slice of one slot or more inside the committed
\* entries whose first slot holds a live value, so val() reads an existing
\* entry, num_descendants_excl_self() is not negative, and
\* num_descendants_incl_self() is the subtree_size stored in that slot; the
\* same holds for the slice finish returns.
NodeRefNonEmpty ==
    /\ [](iter.node # NoNode =>
            /\ SliceLen(iter.node) >= 1
            /\ iter.node.lo >= 0
            /\ iter.node.hi <= len
            /\ mem[iter.node.lo].st = "live"
            /\ NodeRefVal(mem, iter.node) = mem[iter.node.lo].val
            /\ NumDescendantsExclSelf(iter.node) >= 0
            /\ NumDescendantsExclSelf(iter.node) + 1 = NumDescendantsInclSelf(iter.node)
            /\ NumDescendantsInclSelf(iter.node) = mem[iter.node.lo].size)
    /\ [][(last'.op \in FinishOps /\ nextId' = nextId + 1) =>
            LET node == FinishReturn(last'.a, last'.b)
            IN  /\ SliceLen(node) >= 1
                /\ node.hi <= cap'
                /\ mem'[node.lo].st = "live"
                /\ NumDescendantsExclSelf(node) >= 0
                /\ NumDescendantsInclSelf(node) = mem'[node.lo].size]_vars

\* next() on the iterator over the children of a node has yielded a leaf: its
\* slice is one slot long and it has no descendants.
NodeRefNonEmptyWitness ==
    /\ last.op = "iter_next"
    /\ iter.node # NoNode
    /\ iter.node.lo >= 1
    /\ SliceLen(iter.node) = 1
    /\ NumDescendantsExclSelf(iter.node) = 0
    /\ mem[iter.node.lo - 1].size >= 2

\* The slots that the drains still hold.
DrainSlots == UNION {InRange(d.lo, d.hi) : d \in drains}

\* The drains have nothing left.
DrainsEmpty == \A d \in drains : d.hi - d.lo = 0

\* C36: iteration over committed entries terminates, the number of entries
\* left being the measure.  Every next() of NodeIter / NodeIterMut that yields
\* a node takes the node's subtree_size, which is at least 1, off the
\* remaining slice; on an empty slice next() yields None and leaves the slice
\* empty, so every later call yields None too.  Every next() of a
\* NodeListDrain that yields a node takes one slot off what the drains still
\* hold (the node's children go to the drain it hands out); once nothing is
\* left every next() yields None and changes nothing.
IterationTerminates ==
    [][/\ last'.op = "iter_next" =>
            /\ iter.hi - iter.lo >= 1
            /\ LeadingSize(mem, Range(iter.lo, iter.hi)) >= 1
            /\ iter'.hi - iter'.lo
                  = (iter.hi - iter.lo) - LeadingSize(mem, Range(iter.lo, iter.hi))
            /\ iter'.hi - iter'.lo < iter.hi - iter.lo
            /\ iter'.hi - iter'.lo >= 0
            /\ SliceLen(iter'.node) >= 1
       /\ last'.op = "iter_none" =>
            /\ iter.hi - iter.lo = 0
            /\ iter'.hi - iter'.lo = 0
            /\ iter'.node = NoNode
       /\ (Iterating /\ iter.hi - iter.lo = 0) => last'.op # "iter_next"
       /\ last'.op = "drain_next" =>
            /\ DrainSlots' \subseteq DrainSlots
            /\ Cardinality(DrainSlots') = Cardinality(DrainSlots) - 1
       /\ last'.op = "drain_none" =>
            /\ drains' = drains
            /\ mem' = mem
            /\ \E d \in drains : d.lo = last'.a /\ d.hi - d.lo = 0
       /\ (Draining /\ DrainsEmpty) => last'.op # "drain_next"]_vars

\* An iterator over two trees has yielded both, and the call after that has
\* returned None.
IterationTerminatesWitness ==
    /\ last.op = "iter_none"
    /\ iter.kind \in {"shared", "mut"}
    /\ iter.lo = len
    /\ iter.hi = len
    /\ Len(roots) = 2
    /\ len >= 3

\* C37: the NodeRefMut that finish returns is the node just written.  Its
\* slice starts at the builder's index; val() is the value passed to finish;
\* num_descendants_incl_self() is the builder's running subtree_size at the
\* call (1 for add_child and add_single_node_tree, whose builder is new);
\* walking the slice gives the finished node with the children finished
\* under it.  For a child builder the slice lies beyond the committed length
\* (the node is still provisional), for a root builder it is the last
\* committed tree.
FinishReturnsWrittenNode ==
    [][(last'.op \in FinishOps /\ nextId' = nextId + 1) =>
        LET node == FinishReturn(last'.a, last'.b)
            held == Len(chain') < Len(chain)
            running == IF held THEN chain[Len(chain)].subtree_size ELSE 1
            built == IF last'.op = "finish_root"
                     THEN LastOf(roots')
                     ELSE LastOf(chain'[Len(chain')].kids)
        IN  /\ held => node.lo = chain[Len(chain)].index
            /\ NodeRefVal(mem', node) = nextId
            /\ built.val = nextId
            /\ NumDescendantsInclSelf(node) = running
            /\ NumDescendantsInclSelf(node) = mem'[node.lo].size
            /\ IterWalk(mem', node) = <<built>>
            /\ held => built.kids = chain[Len(chain)].kids
            /\ IF last'.op = "finish_child"
               THEN node.lo >= len' /\ len' = len
               ELSE node.lo = len /\ node.hi = len']_vars

\* A child builder under which one child was finished has been finished
\* itself: the node returned has one descendant and is still provisional.
FinishReturnsWrittenNodeWitness ==
    /\ last.op = "finish_child"
    /\ last.b = 2
    /\ last.a >= len
    /\ mem[last.a] = NodeData(nextId - 1, 2)
    /\ NumDescendantsInclSelf(FinishReturn(last.a, last.b)) = 2
    /\ NodeRefVal(mem, FinishReturn(last.a, last.b)) = nextId - 1

\* The input q has a node i with a declared size (offset >= 1) and, among the
\* offset - 1 elements after it, a node j whose own declared size reaches
\* beyond the end of node i.
Escapes(q) ==
    \E i \in 1 .. Len(q) : \E j \in (i + 1) .. Len(q) :
        /\ q[i].offset >= 1
        /\ j < i + q[i].offset
        /\ q[j].offset >= 1
        /\ j + q[j].offset > i + q[i].offset

\* C38: the flat deserializer rejects with the error "offset invalid" every
\* input in which a node's declared size reaches beyond the end of a node
\* that encloses it.  A forest it returns holds the elements of the input in
\* pre-order, every node with a declared size has exactly that size, and
\* every child's subtree ends at or before the end of its parent's subtree.
ChildWithinParent ==
    decoded # NotDecoded =>
        /\ Escapes(wire) =>
             /\ ~decoded.ok
             /\ decoded.msg = "offset invalid"
             /\ decoded.kids = <<>>
        /\ decoded.ok =>
             LET vec == BuiltVec(decoded.kids)
             IN  /\ ~Escapes(wire)
                 /\ DOMAIN vec = 0 .. (Len(wire) - 1)
                 /\ \A i \in 1 .. Len(wire) :
                       /\ vec[i - 1].val = wire[i].val
                       /\ wire[i].offset >= 1 => vec[i - 1].size = wire[i].offset
                       /\ i - 1 + vec[i - 1].size <= Len(wire)
                       /\ \A j \in (i + 1) .. Len(wire) :
                             j < i + vec[i - 1].size =>
                                j + vec[j - 1].size <= i + vec[i - 1].size

\* Four elements, all there: the first declares two descendants and the
\* second declares two as well, one more than the first has left.  The input
\* was rejected at the second element.
ChildWithinParentWitness ==
    /\ decoded # NotDecoded
    /\ Len(wire) = 4
    /\ wire[1].offset = 3 /\ wire[2].offset = 3
    /\ wire[3].offset = 1 /\ wire[4].offset = 1
    /\ ~Overrun(wire)
    /\ Escapes(wire)
    /\ decoded.msg = "offset invalid"
    /\ decoded.pos = 3

=============================================================================
